---- MODULE Spec2Model ----
(***************************************************************************)
(* SharedControl: tap-to-move token workflow of a Foundry VTT module.      *)
(*                                                                         *)
(* Every client runs one MovementStateMachine with one RulerPreview.       *)
(* Token documents (lockedBy flag, x, y) live on the server; a client      *)
(* reads its local copy and writes through requests the server applies in  *)
(* arrival order and sends back to every client in that order.  An         *)
(* `await` of the code is the point where a handler stops and the          *)
(* delivery of the answer resumes it.  online is the set of connected      *)
(* clients, events the number of user inputs handled so far.  search is    *)
(* one call of the pathfinding followed iteration by iteration, overlay    *)
(* the last path overlay drawn: its distance, movement and colour, query   *)
(* the last call of a geometry function with its answer, controls the      *)
(* OverlayControls panel of one client.                                    *)
(***************************************************************************)
EXTENDS Integers, Sequences, FiniteSets, TLC

VARIABLES session, ruler, doc, mirror, outbox, inbox, loops, now, ticks, notice,
          online, events, search, overlay, query, controls

vars == <<session, ruler, doc, mirror, outbox, inbox, loops, now, ticks, notice,
         online, events, search, overlay, query, controls>>

(***************************************************************************)
(* The world: users, tokens, ownership                                     *)
(***************************************************************************)
Players == {"u1", "u2"}

GMs == {"gm"}

Users == Players \cup GMs

Tokens == {"t1", "t2"}

NoToken == "none"

NoUser == "none"

\* game.user.isGM
isGM(u) == u \in GMs

\* token.isOwner for the local user: u1 owns both tokens, u2 owns t1 only
isOwner(u, t) == (u = "u1") \/ (u = "u2" /\ t = "t1")

\* variant of canMoveToken: every user may move every token
canMoveTokenAlways(u, t) == TRUE

\* utils.canMoveToken(token)
canMoveToken(u, t) == IF t = NoToken THEN FALSE ELSE isOwner(u, t) \/ isGM(u)

\* game.users.get(id)?.name ?? fallback
userName(u, fallback) == IF u \in Users THEN u ELSE fallback

(***************************************************************************)
(* Bounds of the model                                                     *)
(***************************************************************************)
MaxTicks == 3

MaxOutbox == 2

MaxInbox == 2

MaxLoops == 2

MaxEvents == 6

MaxSceneEvents == 4

MaxLockEvents == 3

MaxOverrideEvents == 4

MaxGuestEvents == 4

\* the inputs of SpecExec
MaxExecEvents == 5

\* the inputs of SpecSwitch
MaxSwitchEvents == 4

(***************************************************************************)
(* Program constants                                                       *)
(***************************************************************************)
StaleLockMs == 300000

TapToleranceDefault == 25

(***************************************************************************)
(* Values                                                                  *)
(***************************************************************************)
IDLE == "IDLE"

AWAITING_DESTINATION == "AWAITING_DESTINATION"

PREVIEWING_PATH == "PREVIEWING_PATH"

EXECUTING_MOVEMENT == "EXECUTING_MOVEMENT"

ERROR == "ERROR"

States == {IDLE, AWAITING_DESTINATION, PREVIEWING_PATH, EXECUTING_MOVEMENT, ERROR}

NoLock == [userId |-> NoUser, timestamp |-> 0]

NoPoint == [x |-> -1, y |-> -1]

Pt(px, py) == [x |-> px, y |-> py]

NoNotice == [kind |-> "none", user |-> NoUser]

(***************************************************************************)
(* The scene: a square grid, its bounds rectangle, its walls               *)
(***************************************************************************)
\* canvas.grid.size
GridSize == 100

\* canvas.dimensions.sceneRect: the cells of rows 1..2, columns 1..3
SceneRect == [x |-> 100, y |-> 100, width |-> 300, height |-> 200]

\* canvas.stage.worldTransform
StageTransform == [a |-> 1, d |-> 1, tx |-> 20, ty |-> 20]

\* CONST.WALL_DOOR_STATES.OPEN and CONST.WALL_MOVEMENT_TYPES.NONE / NORMAL
DoorOpen == 1

MoveNone == 0

MoveNormal == 20

\* canvas.walls.placeables: two walls close the cell of row 1, column 3;
\* an open door and a wall that does not block movement stand elsewhere
Walls ==
  << [c |-> <<300, 100, 300, 200>>, ds |-> 0, move |-> MoveNormal],
     [c |-> <<300, 200, 400, 200>>, ds |-> 0, move |-> MoveNormal],
     [c |-> <<200, 100, 200, 200>>, ds |-> DoorOpen, move |-> MoveNormal],
     [c |-> <<100, 200, 200, 200>>, ds |-> 0, move |-> MoveNone] >>

Abs(n) == IF n < 0 THEN -n ELSE n

Min(a, b) == IF a < b THEN a ELSE b

Max(a, b) == IF a > b THEN a ELSE b

Off(r, q) == [i |-> r, j |-> q]

\* canvas.grid.getOffset on a square grid: i is the row, j the column
getOffset(p) == [i |-> p.y \div GridSize, j |-> p.x \div GridSize]

\* canvas.grid.getTopLeftPoint on a square grid
getTopLeftPoint(o) == [x |-> o.j * GridSize, y |-> o.i * GridSize]

\* utils.screenToCanvas
screenToCanvas(clientX, clientY) ==
  [x |-> (clientX - StageTransform.tx) \div StageTransform.a,
   y |-> (clientY - StageTransform.ty) \div StageTransform.d]

\* utils.getGridPosition: the centre of the cell that holds (x, y)
getGridPosition(px, py) ==
  LET topLeft == getTopLeftPoint(getOffset(Pt(px, py)))
  IN  [x |-> topLeft.x + (GridSize \div 2), y |-> topLeft.y + (GridSize \div 2)]

\* utils.getTokenPosition: the top-left corner of the cell that holds (x, y)
getTokenPosition(px, py) == getTopLeftPoint(getOffset(Pt(px, py)))

\* utils.isSameLocation: sqrt(dx*dx + dy*dy) <= tol, on integers
isSameLocation(pos1, pos2, tol) ==
  IF pos1 = NoPoint \/ pos2 = NoPoint THEN FALSE
  ELSE LET dx == pos1.x - pos2.x
           dy == pos1.y - pos2.y
       IN  dx * dx + dy * dy <= tol * tol

\* variant of the intersection test: touching at an end point does not count
lineSegmentsIntersectOpen(x1, y1, x2, y2, x3, y3, x4, y4) ==
  LET denom == ((y4 - y3) * (x2 - x1)) - ((x4 - x3) * (y2 - y1))
      na == ((x4 - x3) * (y1 - y3)) - ((y4 - y3) * (x1 - x3))
      nb == ((x2 - x1) * (y1 - y3)) - ((y2 - y1) * (x1 - x3))
      InUnit(n) == IF denom > 0 THEN n > 0 /\ n < denom
                   ELSE n < 0 /\ n > denom
  IN  IF denom = 0 THEN FALSE ELSE InUnit(na) /\ InUnit(nb)

\* utils.lineSegmentsIntersect; ua and ub are num/denom, compared with 0 and 1
\* without dividing
lineSegmentsIntersect(x1, y1, x2, y2, x3, y3, x4, y4) ==
  LET denom == ((y4 - y3) * (x2 - x1)) - ((x4 - x3) * (y2 - y1))
      na == ((x4 - x3) * (y1 - y3)) - ((y4 - y3) * (x1 - x3))
      nb == ((x2 - x1) * (y1 - y3)) - ((y2 - y1) * (x1 - x3))
      InUnit(n) == IF denom > 0 THEN n >= 0 /\ n <= denom
                   ELSE n <= 0 /\ n >= denom
  IN  IF denom = 0 THEN FALSE ELSE InUnit(na) /\ InUnit(nb)

\* CONST.GRID_TYPES
SQUARE == 1

HEXODDR == 2

HEXEVENR == 3

HEXODDC == 4

HEXEVENC == 5

GridTypes == {SQUARE, HEXODDR, HEXEVENR, HEXODDC, HEXEVENC}

\* what the pathfinding reads of the canvas: canvas.grid.type, the result of
\* getSceneBounds (<<>> when no bounds can be determined, else <<rectangle>>)
\* and canvas.walls.placeables
Scene(type, bounds, walls) == [type |-> type, bounds |-> bounds, walls |-> walls]

\* the canvas of the clients: a square grid with SceneRect and Walls
Canvas == Scene(SQUARE, <<SceneRect>>, Walls)

\* canvas.grid.getTopLeftPoint for each grid type, i the row and j the column.
\* On hexagonal grids of size 100 the rows (columns) of a row (column) layout
\* are 86.6 apart, taken to the pixel below, and every second one is shifted by
\* half a cell: the odd ones on HEXODDR and HEXODDC, the even ones on HEXEVENR
\* and HEXEVENC.
gridTopLeft(type, o) ==
  LET half == GridSize \div 2
      pitch(n) == (866 * n * GridSize) \div 1000
  IN  IF type = HEXODDR THEN [x |-> o.j * GridSize + half * (o.i % 2), y |-> pitch(o.i)]
      ELSE IF type = HEXEVENR
        THEN [x |-> o.j * GridSize + half * ((o.i + 1) % 2), y |-> pitch(o.i)]
      ELSE IF type = HEXODDC
        THEN [x |-> pitch(o.j), y |-> o.i * GridSize + half * (o.j % 2)]
      ELSE IF type = HEXEVENC
        THEN [x |-> pitch(o.j), y |-> o.i * GridSize + half * ((o.j + 1) % 2)]
      ELSE getTopLeftPoint(o)

\* RulerPreview.isBlockedByWalls with the walls of scene sc
isBlockedByWallsOn(sc, from, to) ==
  \E w \in 1..Len(sc.walls) :
     /\ sc.walls[w].ds # DoorOpen
     /\ sc.walls[w].move # MoveNone
     /\ lineSegmentsIntersect(from.x, from.y, to.x, to.y,
                              sc.walls[w].c[1], sc.walls[w].c[2],
                              sc.walls[w].c[3], sc.walls[w].c[4])

\* RulerPreview.isBlockedByWalls
isBlockedByWalls(from, to) == isBlockedByWallsOn(Canvas, from, to)

\* RulerPreview.getSceneBounds
getSceneBounds == SceneRect

\* RulerPreview.isWithinBounds
isWithinBounds(position) ==
  LET bounds == getSceneBounds
  IN  /\ position.x >= bounds.x
      /\ position.x <= bounds.x + bounds.width
      /\ position.y >= bounds.y
      /\ position.y <= bounds.y + bounds.height

\* variant of the bounds test: every cell passes
isGridOffsetWithinBoundsOnAlways(sc, offset, lenient) == TRUE

\* RulerPreview.isGridOffsetWithinBounds on scene sc; the centre (gridSize / 2)
\* and the edge tolerance (gridSize / 3) are compared after multiplying by 6
isGridOffsetWithinBoundsOn(sc, offset, lenient) ==
  IF sc.bounds = <<>> THEN TRUE
  ELSE
    LET topLeft == gridTopLeft(sc.type, offset)
        bounds == sc.bounds[1]
        sceneMinX == bounds.x
        sceneMinY == bounds.y
        sceneMaxX == bounds.x + bounds.width
        sceneMaxY == bounds.y + bounds.height
        overlapMinX == Max(topLeft.x, sceneMinX)
        overlapMinY == Max(topLeft.y, sceneMinY)
        overlapMaxX == Min(topLeft.x + GridSize, sceneMaxX)
        overlapMaxY == Min(topLeft.y + GridSize, sceneMaxY)
        centerX6 == 6 * topLeft.x + 3 * GridSize
        centerY6 == 6 * topLeft.y + 3 * GridSize
        tol6 == 2 * GridSize
    IN  IF overlapMinX >= overlapMaxX \/ overlapMinY >= overlapMaxY THEN FALSE
        ELSE IF lenient THEN TRUE
        ELSE /\ centerX6 >= 6 * sceneMinX - tol6
             /\ centerX6 <= 6 * sceneMaxX + tol6
             /\ centerY6 >= 6 * sceneMinY - tol6
             /\ centerY6 <= 6 * sceneMaxY + tol6

\* RulerPreview.isGridOffsetWithinBounds
isGridOffsetWithinBounds(offset, lenient) ==
  isGridOffsetWithinBoundsOn(Canvas, offset, lenient)

(***************************************************************************)
(* A* pathfinding (RulerPreview.findPathAStar); costs in hundredths        *)
(***************************************************************************)
DIAGONAL_COST == 141

MAX_PATHFINDING_ITERATIONS == 5000

\* the centre of a cell, as the main loop computes currentCenter /
\* neighborCenter: the top left point plus half the grid size
cellCenterOn(sc, o) ==
  LET topLeft == gridTopLeft(sc.type, o)
  IN  [x |-> topLeft.x + (GridSize \div 2), y |-> topLeft.y + (GridSize \div 2)]

cellCenter(o) == cellCenterOn(Canvas, o)

\* variant of the heuristic: three times the number of rows and columns apart
heuristicOnTripled(sc, a, b) == 300 * (Abs(a.i - b.i) + Abs(a.j - b.j))

\* heuristic of findPathAStar: dx + dy on hexagonal grids, and
\* dx + dy - 0.59 * min(dx, dy) on the others
heuristicOn(sc, a, b) ==
  LET dx == Abs(a.i - b.i)
      dy == Abs(a.j - b.j)
  IN  IF sc.type >= HEXODDR THEN 100 * (dx + dy)
      ELSE 100 * (dx + dy) - 59 * Min(dx, dy)

heuristic(a, b) == heuristicOn(Canvas, a, b)

\* getMoveCost of findPathAStar
getMoveCost(from, to) ==
  IF Abs(from.i - to.i) = 1 /\ Abs(from.j - to.j) = 1 THEN DIAGONAL_COST ELSE 100

\* getNeighbors of findPathAStar, in the order of the code
getNeighborsOn(sc, o) ==
  IF sc.type \in {HEXODDR, HEXEVENR}
  THEN IF o.j % 2 # 0
       THEN << Off(o.i + 1, o.j), Off(o.i - 1, o.j), Off(o.i, o.j - 1),
               Off(o.i + 1, o.j - 1), Off(o.i, o.j + 1), Off(o.i + 1, o.j + 1) >>
       ELSE << Off(o.i + 1, o.j), Off(o.i - 1, o.j), Off(o.i - 1, o.j - 1),
               Off(o.i, o.j - 1), Off(o.i - 1, o.j + 1), Off(o.i, o.j + 1) >>
  ELSE IF sc.type \in {HEXODDC, HEXEVENC}
  THEN IF o.i % 2 # 0
       THEN << Off(o.i, o.j - 1), Off(o.i, o.j + 1), Off(o.i - 1, o.j),
               Off(o.i - 1, o.j + 1), Off(o.i + 1, o.j), Off(o.i + 1, o.j + 1) >>
       ELSE << Off(o.i, o.j - 1), Off(o.i, o.j + 1), Off(o.i - 1, o.j - 1),
               Off(o.i - 1, o.j), Off(o.i + 1, o.j - 1), Off(o.i + 1, o.j) >>
  ELSE << Off(o.i + 1, o.j), Off(o.i - 1, o.j), Off(o.i, o.j + 1), Off(o.i, o.j - 1),
          Off(o.i + 1, o.j - 1), Off(o.i - 1, o.j - 1), Off(o.i + 1, o.j + 1),
          Off(o.i - 1, o.j + 1) >>

getNeighbors(o) == getNeighborsOn(Canvas, o)

\* openSet.sort((a, b) => fScore(a) - fScore(b)): a stable sort
RECURSIVE sortByFScore(_, _)
sortByFScore(open, f) ==
  IF open = <<>> THEN <<>>
  ELSE LET front == sortByFScore(SubSeq(open, 1, Len(open) - 1), f)
           n == open[Len(open)]
           k == Cardinality({x \in 1..Len(front) : f[front[x]] <= f[n]})
       IN  SubSeq(front, 1, k) \o <<n>> \o SubSeq(front, k + 1, Len(front))

\* the path reconstruction of findPathAStar: follow cameFrom back to the start
RECURSIVE reconstructPath(_, _)
reconstructPath(cameFrom, temp) ==
  IF temp \in DOMAIN cameFrom
  THEN Append(reconstructPath(cameFrom, cameFrom[temp]), temp)
  ELSE <<temp>>

\* variant of the neighbour loop: a neighbour behind a wall is closed
RECURSIVE expandNeighborsOnClosingBlocked(_, _, _, _, _, _)
expandNeighborsOnClosingBlocked(sc, st, current, endOffset, nbrs, n) ==
  IF n > Len(nbrs) THEN st
  ELSE
    LET neighbor == nbrs[n]
        tentativeGScore == st.g[current] + getMoveCost(current, neighbor)
        inOpen == \E x \in 1..Len(st.open) : st.open[x] = neighbor
        notBetter == /\ neighbor \in DOMAIN st.g
                     /\ st.g[neighbor] # 0
                     /\ tentativeGScore >= st.g[neighbor]
        next ==
          IF neighbor \in st.closed THEN st
          ELSE IF \/ ~isGridOffsetWithinBoundsOn(sc, neighbor, FALSE)
                  \/ isBlockedByWallsOn(sc, cellCenterOn(sc, current),
                                        cellCenterOn(sc, neighbor))
            THEN [st EXCEPT !.closed = @ \cup {neighbor}]
          ELSE IF inOpen /\ notBetter THEN st
          ELSE [open |-> IF inOpen THEN st.open ELSE Append(st.open, neighbor),
                closed |-> st.closed,
                cameFrom |-> (neighbor :> current) @@ st.cameFrom,
                g |-> (neighbor :> tentativeGScore) @@ st.g,
                f |-> (neighbor :> (tentativeGScore + heuristicOn(sc, neighbor, endOffset)))
                        @@ st.f]
    IN  expandNeighborsOnClosingBlocked(sc, next, current, endOffset, nbrs, n + 1)

\* the loop over the neighbours of the current node, from neighbour n on
RECURSIVE expandNeighborsOn(_, _, _, _, _, _)
expandNeighborsOn(sc, st, current, endOffset, nbrs, n) ==
  IF n > Len(nbrs) THEN st
  ELSE
    LET neighbor == nbrs[n]
        tentativeGScore == st.g[current] + getMoveCost(current, neighbor)
        inOpen == \E x \in 1..Len(st.open) : st.open[x] = neighbor
        \* tentativeGScore >= (gScore.get(neighborKey) || Infinity)
        notBetter == /\ neighbor \in DOMAIN st.g
                     /\ st.g[neighbor] # 0
                     /\ tentativeGScore >= st.g[neighbor]
        next ==
          IF neighbor \in st.closed THEN st
          ELSE IF ~isGridOffsetWithinBoundsOn(sc, neighbor, FALSE)
            THEN [st EXCEPT !.closed = @ \cup {neighbor}]
          ELSE IF isBlockedByWallsOn(sc, cellCenterOn(sc, current),
                                     cellCenterOn(sc, neighbor)) THEN st
          ELSE IF inOpen /\ notBetter THEN st
          ELSE [open |-> IF inOpen THEN st.open ELSE Append(st.open, neighbor),
                closed |-> st.closed,
                cameFrom |-> (neighbor :> current) @@ st.cameFrom,
                g |-> (neighbor :> tentativeGScore) @@ st.g,
                f |-> (neighbor :> (tentativeGScore + heuristicOn(sc, neighbor, endOffset)))
                        @@ st.f]
    IN  expandNeighborsOn(sc, next, current, endOffset, nbrs, n + 1)

expandNeighbors(st, current, endOffset, nbrs, n) ==
  expandNeighborsOn(Canvas, st, current, endOffset, nbrs, n)

\* variant of the loop condition: one iteration more than the budget
withinBudgetInclusive(iterations) == iterations <= MAX_PATHFINDING_ITERATIONS

\* the budget test of the main loop: iterations < maxIterations
withinBudget(iterations) == iterations < MAX_PATHFINDING_ITERATIONS

\* the condition of the main loop of findPathAStar
loopContinues(st, iterations) == st.open # <<>> /\ withinBudget(iterations)

\* the state of the search before the main loop
searchStart(sc, startOffset, endOffset) ==
  [open |-> <<startOffset>>,
   closed |-> {},
   cameFrom |-> [o \in {} |-> o],
   g |-> (startOffset :> 0),
   f |-> (startOffset :> heuristicOn(sc, startOffset, endOffset))]

\* one iteration of the main loop: the node of lowest fScore leaves the open
\* set; when it is the destination the path is rebuilt and returned (found),
\* else it is closed and its neighbours are examined
aStarIteration(sc, st, endOffset) ==
  LET sorted == sortByFScore(st.open, st.f)
      current == Head(sorted)
      popped == [st EXCEPT !.open = Tail(sorted)]
  IN  IF current = endOffset
      THEN [found |-> TRUE, path |-> reconstructPath(st.cameFrom, current), st |-> popped]
      ELSE [found |-> FALSE, path |-> <<>>,
            st |-> expandNeighborsOn(sc, [popped EXCEPT !.closed = @ \cup {current}],
                                     current, endOffset, getNeighborsOn(sc, current), 1)]

\* the main loop of findPathAStar; the empty sequence stands for null
RECURSIVE aStarLoopOn(_, _, _, _)
aStarLoopOn(sc, st, endOffset, iterations) ==
  IF ~loopContinues(st, iterations) THEN <<>>
  ELSE LET it == aStarIteration(sc, st, endOffset)
       IN  IF it.found THEN it.path
           ELSE aStarLoopOn(sc, it.st, endOffset, iterations + 1)

aStarLoop(st, endOffset, iterations) == aStarLoopOn(Canvas, st, endOffset, iterations)

\* RulerPreview.findPathAStar on scene sc: the cells from start to end, or <<>>
\* for null
findPathAStarOn(sc, startOffset, endOffset) ==
  IF ~isGridOffsetWithinBoundsOn(sc, endOffset, TRUE) THEN <<>>
  ELSE aStarLoopOn(sc, searchStart(sc, startOffset, endOffset), endOffset, 0)

\* RulerPreview.findPathAStar
findPathAStar(startOffset, endOffset) == findPathAStarOn(Canvas, startOffset, endOffset)

\* variant of the conversion: the first cell is kept
pathCentersWithOrigin(sc, pathfindingResult) ==
  [k \in 1..Len(pathfindingResult) |-> cellCenterOn(sc, pathfindingResult[k])]

\* the conversion of getGridPath: the centres of the cells of a found path
\* without its first cell
pathCenters(sc, pathfindingResult) ==
  [k \in 1..(Len(pathfindingResult) - 1) |-> cellCenterOn(sc, pathfindingResult[k + 1])]

\* RulerPreview.getGridPath: cell centres without the starting cell; <<>> both
\* for null and for the empty path, which every caller treats alike
getGridPath(origin, destination) ==
  LET pathfindingResult == findPathAStar(getOffset(origin), getOffset(destination))
  IN  IF Len(pathfindingResult) > 0
      THEN pathCenters(Canvas, pathfindingResult)
      ELSE <<>>

(***************************************************************************)
(* One client's objects, and the handlers as functions of them.            *)
(* cs = [s: the MovementStateMachine, r: the RulerPreview, out: the        *)
(* requests sent and not yet applied, note: the last notification,         *)
(* lp: the running RulerPreview.confirmMovement calls]; md is the client's *)
(* copy of the token documents.                                            *)
(***************************************************************************)
\* game.settings.get('shared-control', 'tapTolerance')
tapTolerance == TapToleranceDefault

NoLoop == [active |-> FALSE, token |-> NoToken, i |-> 0, phase |-> "none"]

LoopIds == 1..MaxLoops

\* new MovementStateMachine()
newSession ==
  [currentState |-> IDLE, selectedToken |-> NoToken, previewDestination |-> NoPoint,
   lastTapPosition |-> NoPoint, errorTimeout |-> "null"]

\* new RulerPreview()
newRuler == [activeToken |-> NoToken, targetDestination |-> NoPoint, currentPath |-> <<>>]

Note(k, u) == [kind |-> k, user |-> u]

Req(op, t, lock, pos, k, id) ==
  [op |-> op, token |-> t, lock |-> lock, x |-> pos.x, y |-> pos.y, k |-> k, id |-> id]

\* RulerPreview.clearPreview
clearPreview(r) ==
  [r EXCEPT !.activeToken = NoToken, !.targetDestination = NoPoint, !.currentPath = <<>>]

\* the assignments of MovementStateMachine.reset that follow the unlock
resetFields(s) ==
  [s EXCEPT !.currentState = IDLE, !.selectedToken = NoToken,
            !.previewDestination = NoPoint, !.lastTapPosition = NoPoint,
            !.errorTimeout = "null"]

\* variant of the lock test of reset: every lock is taken for this user's
ownsLockAlways(c, lockData) == TRUE

\* the lock test of MovementStateMachine.reset: lockData?.userId === game.user.id
ownsLock(c, lockData) == lockData.userId = c

\* MovementStateMachine.reset up to its first await: when the local copy of the
\* flag names this user the unsetFlag request leaves and the assignments wait
\* for its answer; otherwise they run at once
reset(c, md, cs) ==
  IF cs.s.selectedToken # NoToken /\ ownsLock(c, md[cs.s.selectedToken].lockedBy)
  THEN [cs EXCEPT !.out = Append(@, Req("unsetFlag", cs.s.selectedToken, NoLock,
                                        NoPoint, "reset", 0))]
  ELSE [cs EXCEPT !.s = resetFields(@)]

\* variant of cancelMovement: the preview is cleared but the session is not reset
cancelMovementKeepsSession(c, md, cs) == [cs EXCEPT !.r = clearPreview(@)]

\* MovementStateMachine.cancelMovement
cancelMovement(c, md, cs) == reset(c, md, [cs EXCEPT !.r = clearPreview(@)])

\* variant of the stale test: no lock is ever fresh
lockIsFreshNever(lockAge) == FALSE

\* variant of the stale test: a lock of exactly 300000 ms is still fresh
lockIsFreshInclusive(lockAge) == lockAge <= StaleLockMs

\* the stale test of MovementStateMachine.selectToken: lockAge < 300000 refuses
lockIsFresh(lockAge) == lockAge < StaleLockMs

\* variant of the GM branch: a GM is treated like a player
gmOverridesNever(c) == FALSE

\* the GM branch of MovementStateMachine.selectToken
gmOverrides(c) == isGM(c)

\* MovementStateMachine.selectToken up to its await of setFlag
selectToken(c, md, t, cs) ==
  LET lockData == md[t].lockedBy
      lockedByOther == lockData # NoLock /\ lockData.userId # c
      lockAge == now - lockData.timestamp
  IN  IF ~canMoveToken(c, t) THEN [cs EXCEPT !.note = Note("noPermission", NoUser)]
      ELSE IF lockedByOther /\ ~gmOverrides(c) /\ lockIsFresh(lockAge)
        THEN [cs EXCEPT !.note = Note("tokenLocked",
                                      userName(lockData.userId, "another user"))]
      ELSE [cs EXCEPT
              !.out = Append(@, Req("setFlag", t, [userId |-> c, timestamp |-> now],
                                    NoPoint, "select", 0)),
              !.note = IF lockedByOther /\ gmOverrides(c)
                       THEN Note("gmOverride", NoUser) ELSE @]

\* the rest of MovementStateMachine.selectToken, after setFlag has answered
selectTokenDone(t, cs) ==
  [cs EXCEPT !.s = [@ EXCEPT !.selectedToken = t,
                             !.currentState = AWAITING_DESTINATION,
                             !.previewDestination = NoPoint]]

\* RulerPreview.simulateDrag: the path is stored for the movement
simulateDrag(gridPath, r) == [r EXCEPT !.currentPath = gridPath]

\* RulerPreview.showPreview
showPreview(c, md, token, destination, cs) ==
  LET r1 == [cs.r EXCEPT !.activeToken = token, !.targetDestination = destination]
      origin == getGridPosition(md[token].x, md[token].y)
      snappedDest == getGridPosition(destination.x, destination.y)
      gridPath == getGridPath(origin, snappedDest)
  IN  IF ~isWithinBounds(snappedDest)
      THEN [cs EXCEPT !.r = r1, !.note = Note("outOfBounds", NoUser)]
      ELSE IF Len(gridPath) = 0
        THEN IF getOffset(origin) = getOffset(snappedDest)
             THEN [cs EXCEPT !.r = clearPreview(r1)]
             ELSE [cs EXCEPT !.r = clearPreview(r1),
                             !.note = Note("movementBlocked", NoUser)]
      ELSE [cs EXCEPT !.r = simulateDrag(gridPath, r1)]

\* MovementStateMachine.previewMovement
previewMovement(c, md, destination, cs) ==
  IF cs.s.currentState \notin {AWAITING_DESTINATION, PREVIEWING_PATH} THEN cs
  ELSE IF cs.s.selectedToken = NoToken THEN cs
  ELSE LET s1 == [cs.s EXCEPT
                    !.previewDestination = destination,
                    !.lastTapPosition = getGridPosition(destination.x, destination.y),
                    !.currentState = PREVIEWING_PATH]
       IN  showPreview(c, md, s1.selectedToken, destination, [cs EXCEPT !.s = s1])

\* MovementStateMachine.handleError
handleError(cs) ==
  [cs EXCEPT !.s = [@ EXCEPT !.currentState = ERROR, !.errorTimeout = "armed"],
             !.note = Note("movementBlocked", NoUser)]

\* the end of a movement: the finally of RulerPreview.confirmMovement, then the
\* success branch of MovementStateMachine.confirmMovement
movementSucceeded(c, md, cs) == reset(c, md, [cs EXCEPT !.r = clearPreview(@)])

\* a throw inside RulerPreview.confirmMovement: its finally, then the catch of
\* MovementStateMachine.confirmMovement
movementFailed(cs) == handleError([cs EXCEPT !.r = clearPreview(@)])

freeLoop(lp) == CHOOSE id \in LoopIds : ~lp[id].active /\ \A o \in LoopIds : ~lp[o].active => id <= o

\* RulerPreview.confirmMovement up to its first await: the update of the first
\* waypoint leaves, or the direct update when no path is stored
rulerConfirmMovement(c, md, cs) ==
  IF cs.r.activeToken = NoToken \/ cs.r.targetDestination = NoPoint
  THEN reset(c, md, cs)
  ELSE LET id == freeLoop(cs.lp)
           token == cs.r.activeToken
           destination == getTokenPosition(cs.r.targetDestination.x,
                                           cs.r.targetDestination.y)
           hasPath == Len(cs.r.currentPath) > 0
           target == IF hasPath
                     THEN getTokenPosition(cs.r.currentPath[1].x, cs.r.currentPath[1].y)
                     ELSE destination
       IN  [cs EXCEPT
              !.out = Append(@, Req("update", token, NoLock, target, "confirm", id)),
              !.lp = [@ EXCEPT ![id] = [active |-> TRUE, token |-> token, i |-> 1,
                                        phase |-> IF hasPath THEN "update"
                                                  ELSE "fallback"]]]

\* MovementStateMachine.confirmMovement
confirmMovement(c, md, cs) ==
  IF cs.s.currentState # PREVIEWING_PATH THEN cs
  ELSE IF cs.s.selectedToken = NoToken \/ cs.s.previewDestination = NoPoint THEN cs
  ELSE rulerConfirmMovement(c, md,
         [cs EXCEPT !.s = [@ EXCEPT !.currentState = EXECUTING_MOVEMENT]])

\* MovementStateMachine.isSameTapLocation
isSameTapLocation(s, position) ==
  IF s.lastTapPosition = NoPoint THEN FALSE
  ELSE isSameLocation(position, s.lastTapPosition, tapTolerance)

\* the test of TouchWorkflowHandler.handleCanvasTap for a confirmation tap
isConfirmationTap(s, snappedPosition) ==
  s.currentState = PREVIEWING_PATH /\ isSameTapLocation(s, snappedPosition)

\* variant of handleCanvasTap: a tap outside the destination states cancels
\* the movement, as a multi-touch does
handleCanvasTapCancelling(c, md, p, cs) ==
  IF cs.s.currentState \notin {AWAITING_DESTINATION, PREVIEWING_PATH}
  THEN cancelMovement(c, md, cs)
  ELSE LET position == screenToCanvas(p.x, p.y)
           snappedPosition == getGridPosition(position.x, position.y)
       IN  IF isConfirmationTap(cs.s, snappedPosition)
           THEN confirmMovement(c, md, cs)
           ELSE previewMovement(c, md, position, cs)

\* TouchWorkflowHandler.handleCanvasTap for a tap at client coordinates p
handleCanvasTap(c, md, p, cs) ==
  IF cs.s.currentState \notin {AWAITING_DESTINATION, PREVIEWING_PATH} THEN cs
  ELSE LET position == screenToCanvas(p.x, p.y)
           snappedPosition == getGridPosition(position.x, position.y)
       IN  IF isConfirmationTap(cs.s, snappedPosition)
           THEN confirmMovement(c, md, cs)
           ELSE previewMovement(c, md, position, cs)

\* Token.prototype._sharedControlHandleTokenTap
handleTokenTap(c, md, t, cs) ==
  LET inWorkflow == cs.s.currentState \in {AWAITING_DESTINATION, PREVIEWING_PATH}
      sameToken == cs.s.selectedToken = t
      cancelled == IF inWorkflow THEN cancelMovement(c, md, cs) ELSE cs
  IN  IF inWorkflow /\ sameToken THEN cancelled
      ELSE selectToken(c, md, t, cancelled)

\* variant of the updateToken hook: a change of the lock is ignored
updateTokenHookIgnoresLock(c, md, m, cs) == cs

\* variant of the updateToken hook: the session is reset but the preview is kept
updateTokenHookKeepsPreview(c, md, m, cs) ==
  IF /\ m.op = "setFlag"
     /\ cs.s.selectedToken # NoToken
     /\ cs.s.selectedToken = m.token
     /\ m.lock # NoLock
     /\ m.lock.userId # c
  THEN reset(c, md, cs)
  ELSE cs

\* variant of the updateToken hook: the workflow is cancelled without a notice
updateTokenHookSilent(c, md, m, cs) ==
  IF /\ m.op = "setFlag"
     /\ cs.s.selectedToken # NoToken
     /\ cs.s.selectedToken = m.token
     /\ m.lock # NoLock
     /\ m.lock.userId # c
  THEN cancelMovement(c, md, cs)
  ELSE cs

\* variant of the updateToken hook: the lock of this user cancels the workflow too
updateTokenHookCancelsOwn(c, md, m, cs) ==
  IF /\ m.op = "setFlag"
     /\ cs.s.selectedToken # NoToken
     /\ cs.s.selectedToken = m.token
     /\ m.lock # NoLock
  THEN cancelMovement(c, md,
         [cs EXCEPT !.note = Note("tookControl", userName(m.lock.userId, "GM"))])
  ELSE cs

\* the updateToken hook of TouchWorkflowHandler.registerHooks for a delivered
\* change m (the call of the missing unlockToken on a position change throws
\* inside the hook and touches nothing of the session)
updateTokenHook(c, md, m, cs) ==
  IF /\ m.op = "setFlag"
     /\ cs.s.selectedToken # NoToken
     /\ cs.s.selectedToken = m.token
     /\ m.lock # NoLock
     /\ m.lock.userId # c
  THEN cancelMovement(c, md,
         [cs EXCEPT !.note = Note("tookControl", userName(m.lock.userId, "GM"))])
  ELSE cs

\* variant of the canvasReady hook: the session is reset but the preview is kept
canvasReadyHookKeepsPreview(c, md, cs) == reset(c, md, cs)

\* the canvasReady hook of TouchWorkflowHandler.registerHooks
canvasReadyHook(c, md, cs) ==
  LET cs1 == reset(c, md, cs) IN [cs1 EXCEPT !.r = clearPreview(@)]

\* variant of the timer callback: the state is not tested
errorTimerCallbackUnguarded(s) ==
  [s EXCEPT !.currentState = AWAITING_DESTINATION, !.previewDestination = NoPoint,
            !.errorTimeout = "fired"]

\* the timer callback of MovementStateMachine.handleError
errorTimerCallback(s) ==
  IF s.currentState = ERROR
  THEN [s EXCEPT !.currentState = AWAITING_DESTINATION, !.previewDestination = NoPoint,
                 !.errorTimeout = "fired"]
  ELSE [s EXCEPT !.errorTimeout = "fired"]

\* the answer of a waypoint update reaches its RulerPreview.confirmMovement call
waypointAnswered(c, md, m, cs) ==
  LET l == cs.lp[m.id]
      ended == [cs EXCEPT !.lp = [@ EXCEPT ![m.id] = NoLoop]]
  IN  IF ~m.ok THEN movementFailed(ended)
      ELSE IF l.phase = "fallback" THEN movementSucceeded(c, md, ended)
      ELSE [cs EXCEPT !.lp = [@ EXCEPT ![m.id] = [l EXCEPT !.phase = "delay"]]]

\* the setTimeout(animationSpeed) of the waypoint loop has fired: the next
\* waypoint of the path now stored, or the end of the loop
waypointDelayDone(c, md, id, cs) ==
  LET l == cs.lp[id]
      n == l.i + 1
  IN  IF n <= Len(cs.r.currentPath)
      THEN [cs EXCEPT
              !.out = Append(@, Req("update", l.token, NoLock,
                                    getTokenPosition(cs.r.currentPath[n].x,
                                                     cs.r.currentPath[n].y),
                                    "confirm", id)),
              !.lp = [@ EXCEPT ![id] = [l EXCEPT !.i = n, !.phase = "update"]]]
      ELSE movementSucceeded(c, md, [cs EXCEPT !.lp = [@ EXCEPT ![id] = NoLoop]])

\* the continuation that the answer m of this client's own request resumes
resume(c, md, m, cs) ==
  IF m.k = "select" THEN selectTokenDone(m.token, cs)
  ELSE IF m.k = "reset" THEN [cs EXCEPT !.s = resetFields(@)]
  ELSE IF m.k = "confirm" THEN waypointAnswered(c, md, m, cs)
  ELSE cs

(***************************************************************************)
(* The state machine                                                       *)
(***************************************************************************)
CS(c) == [s |-> session[c], r |-> ruler[c], out |-> outbox[c], note |-> notice[c],
          lp |-> loops[c]]

\* the handler's result becomes the client's state; its requests must fit
Apply(c, cs) ==
  /\ Len(cs.out) <= MaxOutbox
  /\ session' = [session EXCEPT ![c] = cs.s]
  /\ ruler' = [ruler EXCEPT ![c] = cs.r]
  /\ outbox' = [outbox EXCEPT ![c] = cs.out]
  /\ notice' = [notice EXCEPT ![c] = cs.note]
  /\ loops' = [loops EXCEPT ![c] = cs.lp]

newDoc(px, py) == [lockedBy |-> NoLock, x |-> px, y |-> py]

\* the tokens of the scene: t1 in the cell of row 2, column 1; t2 in row 2, column 3
InitDocs == [t \in Tokens |-> IF t = "t1" THEN newDoc(100, 200) ELSE newDoc(300, 200)]

\* no search has been started: the fields of one call of findPathAStar
NoSearch ==
  [status |-> "idle", scene |-> Canvas, startOffset |-> Off(0, 0), endOffset |-> Off(0, 0),
   st |-> searchStart(Canvas, Off(0, 0), Off(0, 0)), iterations |-> 0, path |-> <<>>]

\* availableMovement === null
NoMovement == <<>>

\* no path has been drawn
NoOverlay == [drawn |-> FALSE, distance |-> 0, availableMovement |-> NoMovement, color |-> 0]

\* no geometry function has been called
NoQuery == [fn |-> "none"]

\* no continuous pan is running
NoPan == "null"

\* the fields of an OverlayControls after its constructor
newOverlayControls ==
  [isLocked |-> FALSE, isBroadcasting |-> FALSE, isBlackout |-> FALSE,
   lockWasActiveBeforeBlackout |-> FALSE, panInterval |-> NoPan]

\* nothing has happened on the overlay panels
NoAction == [client |-> NoUser, action |-> "none", isStart |-> FALSE, performed |-> "none"]

\* the world settings at their defaults, no change of a setting under way,
\* the panel of the GM and the panel of a player after construction; found
\* is the control lock at the moment blackout was last enabled
newControls ==
  [settings |-> [controlsLocked |-> FALSE, broadcastMode |-> FALSE, blackoutMode |-> FALSE],
   pending |-> <<>>,
   panel |-> [c \in {"gm", "u1"} |-> newOverlayControls],
   found |-> FALSE,
   last |-> NoAction]

InitWith(clients) ==
  /\ online = clients
  /\ events = 0
  /\ search = NoSearch
  /\ overlay = NoOverlay
  /\ query = NoQuery
  /\ controls = newControls
  /\ session = [u \in Users |-> newSession]
  /\ ruler = [u \in Users |-> newRuler]
  /\ doc = InitDocs
  /\ mirror = [u \in Users |-> InitDocs]
  /\ outbox = [u \in Users |-> <<>>]
  /\ inbox = [u \in Users |-> <<>>]
  /\ loops = [u \in Users |-> [id \in LoopIds |-> NoLoop]]
  /\ now = 0
  /\ ticks = 0
  /\ notice = [u \in Users |-> NoNotice]

\* one player connected
Init == InitWith({"u1"})

\* two clients connected: the two players, or a player and the GM
InitLock == \E clients \in {{"u1", "u2"}, {"u1", "gm"}} : InitWith(clients)

\* a user input at a connected client, within the bound on inputs
Input(c) ==
  /\ c \in online
  /\ events < MaxEvents
  /\ events' = events + 1
  /\ UNCHANGED <<search, overlay, query, controls>>

\* a click on token t at client c (Token.prototype._onClickLeft)
TokenTap(c, t) ==
  /\ Input(c)
  /\ Apply(c, handleTokenTap(c, mirror[c], t, CS(c)))
  /\ UNCHANGED <<doc, mirror, inbox, now, ticks, online>>

\* a single-touch pointerdown on the canvas at client coordinates p
\* (TouchWorkflowHandler.onCanvasPointerDown)
CanvasTap(c, p) ==
  /\ Input(c)
  /\ LET position == screenToCanvas(p.x, p.y)
     IN  isConfirmationTap(session[c], getGridPosition(position.x, position.y))
           => \E id \in LoopIds : ~loops[c][id].active
  /\ Apply(c, handleCanvasTap(c, mirror[c], p, CS(c)))
  /\ UNCHANGED <<doc, mirror, inbox, now, ticks, online>>

\* a multi-touch pointerdown on the canvas (TouchWorkflowHandler.onCanvasPointerDown)
MultiTouch(c) ==
  /\ Input(c)
  /\ Apply(c, cancelMovement(c, mirror[c], CS(c)))
  /\ UNCHANGED <<doc, mirror, inbox, now, ticks, online>>

\* the canvasReady hook runs at client c
CanvasReady(c) ==
  /\ Input(c)
  /\ Apply(c, canvasReadyHook(c, mirror[c], CS(c)))
  /\ UNCHANGED <<doc, mirror, inbox, now, ticks, online>>

\* the 2000 ms timer of handleError fires at client c
ErrorTimer(c) ==
  /\ session[c].errorTimeout = "armed"
  /\ session' = [session EXCEPT ![c] = errorTimerCallback(@)]
  /\ UNCHANGED <<ruler, doc, mirror, outbox, inbox, loops, now, ticks, notice,
                 online, events, search, overlay,
                 query, controls>>

\* the delay after a waypoint of loop id has passed at client c
WaypointDelay(c, id) ==
  /\ loops[c][id].active
  /\ loops[c][id].phase = "delay"
  /\ Apply(c, waypointDelayDone(c, mirror[c], id, CS(c)))
  /\ UNCHANGED <<doc, mirror, inbox, now, ticks, online, events, search, overlay,
                 query, controls>>

\* what a request does to the token documents
applyChange(docs, m) ==
  IF m.op = "setFlag" THEN [docs EXCEPT ![m.token].lockedBy = m.lock]
  ELSE IF m.op = "unsetFlag" THEN [docs EXCEPT ![m.token].lockedBy = NoLock]
  ELSE [docs EXCEPT ![m.token].x = m.x, ![m.token].y = m.y]

Msg(r, from, to, ok) ==
  [op |-> r.op, token |-> r.token, lock |-> r.lock, x |-> r.x, y |-> r.y,
   userId |-> from, ok |-> ok,
   ack |-> (to = from),
   k |-> IF to = from THEN r.k ELSE "none",
   id |-> IF to = from THEN r.id ELSE 0]

\* the server takes the oldest request of client c: it applies it and tells
\* every client, or (a position update only) rejects it and tells c
ServerApply(c, ok) ==
  /\ outbox[c] # <<>>
  /\ ok \/ Head(outbox[c]).op = "update"
  /\ \A u \in online : Len(inbox[u]) < MaxInbox
  /\ LET r == Head(outbox[c])
     IN  /\ doc' = IF ok THEN applyChange(doc, r) ELSE doc
         /\ inbox' = [u \in Users |->
                        IF u \in online /\ (ok \/ u = c)
                        THEN Append(inbox[u], Msg(r, c, u, ok))
                        ELSE inbox[u]]
  /\ outbox' = [outbox EXCEPT ![c] = Tail(@)]
  /\ UNCHANGED <<session, ruler, mirror, loops, now, ticks, notice, online, events, search, overlay,
                 query, controls>>

\* client c handles the oldest message of the server: its copy of the document
\* changes, the updateToken hook runs, and the await of its own request resumes
Deliver(c) ==
  /\ inbox[c] # <<>>
  /\ LET m == Head(inbox[c])
         md == IF m.ok THEN applyChange(mirror[c], m) ELSE mirror[c]
         hooked == IF m.ok THEN updateTokenHook(c, md, m, CS(c)) ELSE CS(c)
         resumed == IF m.ack THEN resume(c, md, m, hooked) ELSE hooked
     IN  /\ mirror' = [mirror EXCEPT ![c] = md]
         /\ Apply(c, resumed)
  /\ inbox' = [inbox EXCEPT ![c] = Tail(@)]
  /\ UNCHANGED <<doc, now, ticks, online, events, search, overlay,
                 query, controls>>

\* the server completes the second request of client c before the first: the
\* two are awaited separately and are for different documents, so nothing in
\* the program orders their completion
ServerOvertake(c) ==
  /\ Len(outbox[c]) >= 2
  /\ outbox[c][1].token # outbox[c][2].token
  /\ \A u \in online : Len(inbox[u]) < MaxInbox
  /\ LET r == outbox[c][2]
     IN  /\ doc' = applyChange(doc, r)
         /\ inbox' = [u \in Users |->
                        IF u \in online THEN Append(inbox[u], Msg(r, c, u, TRUE))
                        ELSE inbox[u]]
  /\ outbox' = [outbox EXCEPT ![c] = <<@[1]>> \o Tail(Tail(@))]
  /\ UNCHANGED <<session, ruler, mirror, loops, now, ticks, notice, online, events, search, overlay,
                 query, controls>>

\* the listener of SharedControl.setupSocket for a message data: a message of
\* this user is dropped; a lockToken or unlockToken of another user only calls
\* the lock bookkeeping of the state machine, which is no part of the session
socketHandler(c, data, cs) ==
  IF data.action \in {"lockToken", "unlockToken"} /\ data.userId = c THEN cs
  ELSE cs

SocketMessages ==
  [action : {"lockToken", "unlockToken"}, tokenId : Tokens, userId : Users]

\* a module.shared-control socket message reaches client c
SocketMessage(c, data) ==
  /\ Input(c)
  /\ Apply(c, socketHandler(c, data, CS(c)))
  /\ UNCHANGED <<doc, mirror, inbox, now, ticks, online>>

\* time passes: Date.now() is d later
Tick(d) ==
  /\ ticks < MaxTicks
  /\ now' = now + d
  /\ ticks' = ticks + 1
  /\ UNCHANGED <<session, ruler, doc, mirror, outbox, inbox, loops, notice, online,
                 events, search, overlay,
                 query, controls>>

\* the instants at which the clock is read: one millisecond before the stale
\* limit of a lock taken at 0, then every millisecond
TickDelta == IF ticks = 0 THEN StaleLockMs - 1 ELSE 1

\* taps, in client coordinates; the canvas point is 20 less in x and y
TapCell11 == Pt(170, 170)

TapCell11Off == Pt(196, 170)

TapCell22 == Pt(270, 270)

TapCell13 == Pt(370, 170)

TapOutside == Pt(70, 270)

TapCell21 == Pt(170, 270)

TapPoints == {TapCell11, TapCell11Off, TapCell22, TapCell13, TapOutside, TapCell21}

(***************************************************************************)
(* Spec: one player with both tokens and every tap                         *)
(***************************************************************************)
Next ==
  \/ \E t \in Tokens : events < MaxSceneEvents /\ TokenTap("u1", t)
  \/ \E p \in TapPoints : events < MaxSceneEvents /\ CanvasTap("u1", p)
  \/ events < MaxSceneEvents /\ MultiTouch("u1")
  \/ events < MaxSceneEvents /\ CanvasReady("u1")
  \/ ErrorTimer("u1")
  \/ \E id \in LoopIds : WaypointDelay("u1", id)
  \/ \E ok \in BOOLEAN : ServerApply("u1", ok)
  \/ ServerOvertake("u1")
  \/ Deliver("u1")

Spec == Init /\ [][Next]_vars

(***************************************************************************)
(* SpecLock: two clients on token t1, with time                            *)
(***************************************************************************)
LockTapPoints == {TapCell11}

NextLock ==
  \/ \E c \in Users : events < MaxLockEvents /\ TokenTap(c, "t1")
  \/ \E p \in LockTapPoints : events < MaxLockEvents /\ CanvasTap("u1", p)
  \/ \E c \in Users : \E ok \in BOOLEAN : ServerApply(c, ok)
  \/ \E c \in Users : Deliver(c)
  \/ Tick(TickDelta)

SpecLock == InitLock /\ [][NextLock]_vars

(***************************************************************************)
(* SpecOverride: player u1 moves t2 along two waypoints, the GM takes t2   *)
(***************************************************************************)
InitOverride == InitWith({"u1", "gm"})

OverrideSockets == {m \in SocketMessages : m.tokenId = "t2" /\ m.userId = "u1"}

NextOverride ==
  \/ \E c \in {"u1", "gm"} : events < MaxOverrideEvents /\ TokenTap(c, "t2")
  \/ events < MaxOverrideEvents /\ CanvasTap("u1", TapCell11)
  \/ \E data \in OverrideSockets : events < MaxOverrideEvents /\ SocketMessage("u1", data)
  \/ ErrorTimer("u1")
  \/ \E id \in LoopIds : WaypointDelay("u1", id)
  \/ \E c \in {"u1", "gm"} : \E ok \in BOOLEAN : ServerApply(c, ok)
  \/ \E c \in {"u1", "gm"} : Deliver(c)

SpecOverride == InitOverride /\ [][NextOverride]_vars

(***************************************************************************)
(* SpecMove: player u1 alone, taps and scene changes during a movement     *)
(***************************************************************************)
NextMove ==
  \/ TokenTap("u1", "t2")
  \/ CanvasTap("u1", TapCell11)
  \/ CanvasReady("u1")
  \/ ErrorTimer("u1")
  \/ \E id \in LoopIds : WaypointDelay("u1", id)
  \/ \E ok \in BOOLEAN : ServerApply("u1", ok)
  \/ Deliver("u1")

SpecMove == Init /\ [][NextMove]_vars

(***************************************************************************)
(* SpecExec: one player, taps between movements and during a movement,     *)
(* no scene change, no rejected update, no other client                    *)
(***************************************************************************)
\* nothing of client c is under way: the session is idle and no write of c
\* waits for its answer
Calm(c) ==
  /\ session[c].currentState = IDLE
  /\ outbox[c] = <<>>
  /\ inbox[c] = <<>>

NextExec ==
  \/ \E t \in Tokens :
       /\ events < MaxExecEvents
       /\ Calm("u1") \/ session["u1"].currentState = EXECUTING_MOVEMENT
       /\ TokenTap("u1", t)
  \/ events < MaxExecEvents /\ CanvasTap("u1", TapCell11)
  \/ \E id \in LoopIds : WaypointDelay("u1", id)
  \/ ServerApply("u1", TRUE)
  \/ Deliver("u1")

SpecExec == Init /\ [][NextExec]_vars


(***************************************************************************)
(* SpecSwitch: one player who selects a token and switches to the other,   *)
(* each tap made when every earlier write has been answered                *)
(***************************************************************************)
\* no write of client c waits for its answer
NothingPending(c) ==
  /\ outbox[c] = <<>>
  /\ inbox[c] = <<>>

NextSwitch ==
  \/ \E t \in Tokens :
       /\ events < MaxSwitchEvents
       /\ NothingPending("u1")
       /\ \/ session["u1"].currentState = IDLE
          \/ /\ session["u1"].currentState \in {AWAITING_DESTINATION, PREVIEWING_PATH}
             /\ session["u1"].selectedToken # t
       /\ TokenTap("u1", t)
  \/ \E p \in TapPoints :
       /\ events < MaxSwitchEvents
       /\ NothingPending("u1")
       /\ session["u1"].currentState = AWAITING_DESTINATION
       /\ CanvasTap("u1", p)
  \/ ServerApply("u1", TRUE)
  \/ ServerOvertake("u1")
  \/ Deliver("u1")

SpecSwitch == Init /\ [][NextSwitch]_vars

(***************************************************************************)
(* SpecGuest: player u2 alone, who owns t1 and not t2                      *)
(***************************************************************************)
InitGuest == InitWith({"u2"})

NextGuest ==
  \/ \E t \in Tokens : events < MaxGuestEvents /\ TokenTap("u2", t)
  \/ events < MaxGuestEvents /\ CanvasTap("u2", TapCell11)
  \/ \E id \in LoopIds : WaypointDelay("u2", id)
  \/ ServerApply("u2", TRUE)
  \/ Deliver("u2")

SpecGuest == InitGuest /\ [][NextGuest]_vars

(***************************************************************************)
(* Claims                                                                  *)
(***************************************************************************)
\* nothing is in flight between the connected clients and the server
Quiescent == \A c \in online : outbox[c] = <<>> /\ inbox[c] = <<>>

\* the session of c has token t selected and is not idle
Holds(c, t) == session[c].selectedToken = t /\ session[c].currentState # IDLE

\* a token tap at c that runs selectToken directly (no workflow to cancel first)
DirectSelect(c) ==
  /\ session[c].currentState \notin {AWAITING_DESTINATION, PREVIEWING_PATH}
  /\ TokenTap(c, "t1")

\* the local copy of t1's flag at c names another user
LockedByOther(c) ==
  /\ mirror[c]["t1"].lockedBy # NoLock
  /\ mirror[c]["t1"].lockedBy.userId # c

LockAge(c) == now - mirror[c]["t1"].lockedBy.timestamp

\* the step issues exactly the setFlag request of selectToken at c
IssuesLock(c) ==
  outbox'[c] = Append(outbox[c], Req("setFlag", "t1", [userId |-> c, timestamp |-> now],
                                     NoPoint, "select", 0))

\* the step leaves the session of c and its requests as they were
Refused(c) ==
  /\ session'[c] = session[c]
  /\ outbox'[c] = outbox[c]
  /\ notice'[c].kind = "tokenLocked"

\* the step is the delivery to c of the answer to its own setFlag
SelectAnswered(c) ==
  /\ inbox[c] # <<>>
  /\ Head(inbox[c]).ack
  /\ Head(inbox[c]).k = "select"
  /\ Deliver(c)

\* the session of c is awaiting a destination for t1 and c's copy of the flag names c
Acquired(c) ==
  /\ session'[c].currentState = AWAITING_DESTINATION
  /\ session'[c].selectedToken = "t1"
  /\ session'[c].previewDestination = NoPoint
  /\ mirror'[c]["t1"].lockedBy.userId = c

\* the step delivers to c, which holds t1, another user's write of t1's flag
OverriddenBy(c) ==
  /\ Holds(c, "t1")
  /\ inbox[c] # <<>>
  /\ Head(inbox[c]).op = "setFlag"
  /\ Head(inbox[c]).token = "t1"
  /\ Head(inbox[c]).lock.userId # c
  /\ Deliver(c)

\* C1: lock exclusivity. Once every request and every update has been
\* delivered, at most one of the two players' sessions has t1 selected in a
\* state other than IDLE; and the delivery of the other player's write to a
\* session that holds t1 cancels that session to IDLE with no selection.
C1_LockExclusivity ==
  /\ [](Quiescent =>
          \A a \in Players : \A b \in Players \ {a} :
            ~(Holds(a, "t1") /\ Holds(b, "t1")))
  /\ [][\A c \in Players :
          OverriddenBy(c) =>
            /\ session'[c].currentState = IDLE
            /\ session'[c].selectedToken = NoToken]_vars

\* both players wrote the flag of the unlocked token at time 0; u2's write came
\* last, u1 was cancelled by its delivery
C1_Witness ==
  /\ Quiescent
  /\ now = 0
  /\ Holds("u2", "t1")
  /\ doc["t1"].lockedBy.userId = "u2"
  /\ notice["u1"] = Note("tookControl", "u2")
  /\ session["u1"].currentState = IDLE

\* the state before the GM's flag update reaches player u1: u1 previews a path
\* for t1 under its own lock, the GM's selectToken has completed, and the
\* update is the only message in flight
C2_Before ==
  /\ session["u1"].currentState = PREVIEWING_PATH
  /\ session["u1"].selectedToken = "t1"
  /\ mirror["u1"]["t1"].lockedBy.userId = "u1"
  /\ outbox["u1"] = <<>>
  /\ outbox["gm"] = <<>>
  /\ inbox["gm"] = <<>>
  /\ Len(inbox["u1"]) = 1
  /\ Head(inbox["u1"]).op = "setFlag"
  /\ Head(inbox["u1"]).lock.userId = "gm"

\* C2: GM override. When the GM's flag update is delivered to u1, whose
\* session previews a path for t1, u1's session becomes idle with its preview
\* cleared, u1 is shown the notice naming the GM, the GM's session is awaiting
\* a destination for t1 and the flag of t1 names the GM.
C2_GMOverride ==
  [][(C2_Before /\ Deliver("u1")) =>
       /\ session'["u1"] = newSession
       /\ ruler'["u1"] = newRuler
       /\ notice'["u1"] = Note("tookControl", "gm")
       /\ session'["gm"].currentState = AWAITING_DESTINATION
       /\ session'["gm"].selectedToken = "t1"
       /\ doc'["t1"].lockedBy.userId = "gm"
       /\ mirror'["u1"]["t1"].lockedBy.userId = "gm"]_vars

\* C3: release only by owner. An unsetFlag that the server applies for client
\* c never removes a lock that names another user.
C3_ReleaseOnlyByOwner ==
  [][\A c \in Users :
       (/\ outbox[c] # <<>>
        /\ Head(outbox[c]).op = "unsetFlag"
        /\ ServerApply(c, TRUE))
       => doc[Head(outbox[c]).token].lockedBy.userId \in {c, NoUser}]_vars

\* C8: stale lock recovery. A player's selectToken on t1 whose flag names
\* another user is refused, with session, selection and flag untouched, while
\* the lock is younger than 5 minutes, and writes the flag with the player's id
\* and the current time when the lock is older than 5 minutes; when that write
\* is answered the player's session is awaiting a destination for t1.
C8_StaleLockRecovery ==
  [][\A c \in Players :
       /\ (DirectSelect(c) /\ LockedByOther(c) /\ LockAge(c) < StaleLockMs)
            => Refused(c)
       /\ (DirectSelect(c) /\ LockedByOther(c) /\ LockAge(c) > StaleLockMs)
            => IssuesLock(c)
       /\ SelectAnswered(c) => Acquired(c)]_vars

\* u2 has taken over the lock u1 took at time 0, more than 5 minutes later; the
\* update has not reached u1 yet
C8_Witness ==
  /\ Holds("u2", "t1")
  /\ doc["t1"].lockedBy.userId = "u2"
  /\ doc["t1"].lockedBy.timestamp > StaleLockMs
  /\ mirror["u1"]["t1"].lockedBy = [userId |-> "u1", timestamp |-> 0]
  /\ Holds("u1", "t1")

C10_GMAlwaysAcquires ==
  [][\A g \in GMs :
       /\ DirectSelect(g) => IssuesLock(g)
       /\ SelectAnswered(g) => Acquired(g)]_vars

\* the GM has acquired t1 over the fresh lock of u1
C10_Witness ==
  /\ now = 0
  /\ Holds("gm", "t1")
  /\ session["gm"].currentState = AWAITING_DESTINATION
  /\ mirror["gm"]["t1"].lockedBy.userId = "gm"
  /\ notice["gm"] = Note("gmOverride", NoUser)

\* the canvas point of a tap given in client coordinates, and the centre of its cell
TapCanvas(p) == screenToCanvas(p.x, p.y)

TapSnapped(p) == getGridPosition(TapCanvas(p).x, TapCanvas(p).y)

\* the centre of the cell the selected token of c stands in, as c sees it
SelectedOrigin(c) ==
  getGridPosition(mirror[c][session[c].selectedToken].x,
                  mirror[c][session[c].selectedToken].y)

\* squared distance between two canvas points
Dist2(a, b) == (a.x - b.x) * (a.x - b.x) + (a.y - b.y) * (a.y - b.y)

\* the step appends a position update to the requests of c
IssuesUpdate(c) ==
  /\ Len(outbox'[c]) > Len(outbox[c])
  /\ outbox'[c][Len(outbox'[c])].op = "update"

\* C4: an out-of-bounds destination creates no preview. When the last
\* destination tap of u1 was rejected as outside the scene, a following tap at
\* the same location issues no position update for the selected token.
C4_OutOfBoundsNoPreview ==
  [][\A p \in TapPoints :
       (/\ session["u1"].selectedToken # NoToken
        /\ ~isWithinBounds(TapSnapped(p))
        /\ session["u1"].lastTapPosition = TapSnapped(p)
        /\ CanvasTap("u1", p))
       => ~IssuesUpdate("u1")]_vars

\* C5: an unreachable destination keeps the session awaiting. A tap of u1, in
\* AWAITING_DESTINATION, on a cell inside the scene to which the pathfinder
\* finds no path leaves the session in AWAITING_DESTINATION with no preview
\* destination and no confirmation anchor.
C5_UnreachableKeepsAwaiting ==
  [][\A p \in TapPoints :
       (/\ session["u1"].currentState = AWAITING_DESTINATION
        /\ session["u1"].selectedToken # NoToken
        /\ isWithinBounds(TapSnapped(p))
        /\ getOffset(SelectedOrigin("u1")) # getOffset(TapSnapped(p))
        /\ getGridPath(SelectedOrigin("u1"), TapSnapped(p)) = <<>>
        /\ CanvasTap("u1", p))
       => /\ session'["u1"].currentState = AWAITING_DESTINATION
          /\ session'["u1"].previewDestination = NoPoint
          /\ session'["u1"].lastTapPosition = NoPoint]_vars

\* C6: idempotent re-preview. Whenever u1 previews a path, the stored path
\* ends in the cell of the preview target, and the preview target and the
\* confirmation anchor are those of the last tapped destination.
C6_IdempotentRePreview ==
  (session["u1"].currentState = PREVIEWING_PATH /\ ruler["u1"].currentPath # <<>>)
    => /\ ruler["u1"].targetDestination = session["u1"].previewDestination
       /\ session["u1"].lastTapPosition
            = getGridPosition(ruler["u1"].targetDestination.x,
                              ruler["u1"].targetDestination.y)
       /\ ruler["u1"].currentPath[Len(ruler["u1"].currentPath)]
            = session["u1"].lastTapPosition

\* C7: confirmation tolerance. With a confirmation anchor P in
\* PREVIEWING_PATH, a canvas tap at a distance of at most tapTolerance from P
\* confirms the movement, and a tap at distance tapTolerance + 1 from P starts
\* a new preview at the tapped point instead.
C7_ConfirmationTolerance ==
  [][\A p \in TapPoints :
       (/\ session["u1"].currentState = PREVIEWING_PATH
        /\ session["u1"].lastTapPosition # NoPoint
        /\ CanvasTap("u1", p))
       => /\ Dist2(TapCanvas(p), session["u1"].lastTapPosition)
               <= tapTolerance * tapTolerance
             => session'["u1"].currentState \in {EXECUTING_MOVEMENT, IDLE}
          /\ Dist2(TapCanvas(p), session["u1"].lastTapPosition)
               = (tapTolerance + 1) * (tapTolerance + 1)
             => /\ session'["u1"].currentState = PREVIEWING_PATH
                /\ session'["u1"].previewDestination = TapCanvas(p)]_vars

\* the step delivers to c a write of the flag of its selected token that names
\* another user
RemoteLockArrives(c) ==
  /\ session[c].selectedToken # NoToken
  /\ inbox[c] # <<>>
  /\ Head(inbox[c]).op = "setFlag"
  /\ Head(inbox[c]).token = session[c].selectedToken
  /\ Head(inbox[c]).lock.userId # c
  /\ Deliver(c)

\* the waypoint loop id of c waits for its delay to end and finds no stored path
Stopped(c, id) ==
  /\ loops[c][id].active
  /\ ruler[c].currentPath = <<>>

C12_NoOrphanedLocks ==
  (/\ session["u1"].currentState = IDLE
   /\ outbox["u1"] = <<>>
   /\ inbox["u1"] = <<>>)
    => \A t \in Tokens : doc[t].lockedBy.userId # "u1"

\* c's copy of the flag of its selected token names c
OwnsSelected(c) ==
  /\ session[c].selectedToken # NoToken
  /\ mirror[c][session[c].selectedToken].lockedBy.userId = c

\* the step issues exactly the unsetFlag request of reset for c's selected token
IssuesUnlock(c) ==
  outbox'[c] = Append(outbox[c], Req("unsetFlag", session[c].selectedToken, NoLock,
                                     NoPoint, "reset", 0))

\* the step is the delivery to c of the answer to the unsetFlag of its reset
ResetAnswered(c) ==
  /\ inbox[c] # <<>>
  /\ Head(inbox[c]).ack
  /\ Head(inbox[c]).k = "reset"
  /\ Deliver(c)

\* C13: scene change resets. A canvasReady in any session state clears the
\* stored preview and path at once; when the flag of the selected token names
\* the local user it sends the unsetFlag for that token, and the session is
\* IDLE with selection, preview destination, confirmation anchor and error
\* timer cleared once that request is answered; otherwise it is so at once.
C13_SceneChangeResets ==
  [][/\ CanvasReady("u1") =>
          /\ ruler'["u1"] = newRuler
          /\ IF OwnsSelected("u1")
             THEN IssuesUnlock("u1") /\ session'["u1"] = session["u1"]
             ELSE session'["u1"] = newSession /\ outbox'["u1"] = outbox["u1"]
     /\ ResetAnswered("u1") => session'["u1"] = newSession]_vars

\* a scene change has come during a movement: the path is cleared, the unlock
\* is on its way and the loop of the movement is still waiting
C13_Witness ==
  /\ session["u1"].currentState = EXECUTING_MOVEMENT
  /\ ruler["u1"] = newRuler
  /\ \E k \in 1..Len(outbox["u1"]) : outbox["u1"][k].op = "unsetFlag"
  /\ \E id \in LoopIds : loops["u1"][id].active

\* the step is the delivery to c of the rejection of a waypoint update
UpdateRejected(c) ==
  /\ inbox[c] # <<>>
  /\ Head(inbox[c]).ack
  /\ Head(inbox[c]).k = "confirm"
  /\ ~Head(inbox[c]).ok
  /\ Deliver(c)

\* the fields of a session other than the handle of the error timer
SessionFields(s) ==
  <<s.currentState, s.selectedToken, s.previewDestination, s.lastTapPosition>>

\* C14: error recovery. A rejected waypoint update puts the session in ERROR
\* with its selected token kept and the timer armed; the timer firing in ERROR
\* moves the session to AWAITING_DESTINATION with previewDestination cleared
\* and the token kept; the timer firing in any other state changes no field
\* of the session.
C14_ErrorRecovery ==
  [][/\ UpdateRejected("u1") =>
          /\ session'["u1"].currentState = ERROR
          /\ session'["u1"].selectedToken = session["u1"].selectedToken
          /\ session'["u1"].errorTimeout = "armed"
     /\ (session["u1"].currentState = ERROR /\ ErrorTimer("u1")) =>
          /\ session'["u1"].currentState = AWAITING_DESTINATION
          /\ session'["u1"].previewDestination = NoPoint
          /\ session'["u1"].selectedToken = session["u1"].selectedToken
     /\ (session["u1"].currentState # ERROR /\ ErrorTimer("u1")) =>
          SessionFields(session'["u1"]) = SessionFields(session["u1"])]_vars

\* the timer has fired in ERROR: the session awaits a destination for the
\* token of the failed movement, whose anchor is still stored
C14_Witness ==
  /\ session["u1"].errorTimeout = "fired"
  /\ session["u1"].currentState = AWAITING_DESTINATION
  /\ session["u1"].selectedToken # NoToken
  /\ session["u1"].previewDestination = NoPoint
  /\ session["u1"].lastTapPosition # NoPoint

\* the number of position updates of token t in a sequence of requests or of
\* messages (of the answers only among them, when acksOnly)
RECURSIVE CountUpdates(_, _, _)
CountUpdates(msgs, t, acksOnly) ==
  IF msgs = <<>> THEN 0
  ELSE (IF /\ Head(msgs).op = "update"
           /\ Head(msgs).token = t
           /\ (acksOnly => Head(msgs).ack)
        THEN 1 ELSE 0) + CountUpdates(Tail(msgs), t, acksOnly)

\* the position updates of token t that c has issued and whose answer c has
\* not yet handled
InFlight(c, t) == CountUpdates(outbox[c], t, FALSE) + CountUpdates(inbox[c], t, TRUE)

\* the waypoint loops of c that have not ended
RunningLoops(c) == {id \in LoopIds : loops[c][id].active}

\* C15: serialized execution. The session of u1 never has two position
\* updates of the same token in flight, and never runs two waypoint loops at
\* the same time.
C15_SerializedExecution ==
  /\ \A t \in Tokens : InFlight("u1", t) <= 1
  /\ Cardinality(RunningLoops("u1")) <= 1

\* a waypoint loop of c moves the selected token of c
Moving(c, id) ==
  /\ loops[c][id].active
  /\ loops[c][id].token = session[c].selectedToken

\* C16: executing state held for the whole movement. With no remote override,
\* no scene change and no failed update, every step taken while a waypoint
\* loop of u1 moves the selected token and that does not end the loop leaves
\* the state EXECUTING_MOVEMENT and the selected token the moving token.
C16_ExecutingHeld ==
  [][\A id \in LoopIds :
       (/\ session["u1"].currentState = EXECUTING_MOVEMENT
        /\ Moving("u1", id)
        /\ loops'["u1"][id].active)
       => /\ session'["u1"].currentState = EXECUTING_MOVEMENT
          /\ session'["u1"].selectedToken = session["u1"].selectedToken]_vars

\* the step is a tap of c on the token it has selected, in a state that takes
\* destinations
Retap(c) ==
  /\ session[c].currentState \in {AWAITING_DESTINATION, PREVIEWING_PATH}
  /\ session[c].selectedToken = "t1"
  /\ TokenTap(c, "t1")

\* C17: cancel by re-tap. A tap on the selected token in AWAITING_DESTINATION
\* or PREVIEWING_PATH clears the preview and sends no setFlag; when the flag of
\* the token names the local user it sends the unsetFlag for the token, and the
\* answer to it removes the flag and leaves the session as new (IDLE, nothing
\* selected); otherwise the session is as new at once.
C17_CancelByRetap ==
  [][\A c \in Users :
       /\ Retap(c) =>
            /\ ruler'[c] = newRuler
            /\ IF OwnsSelected(c)
               THEN IssuesUnlock(c) /\ session'[c] = session[c]
               ELSE outbox'[c] = outbox[c] /\ session'[c] = newSession
       /\ ResetAnswered(c) =>
            /\ session'[c] = newSession
            /\ mirror'[c][Head(inbox[c]).token].lockedBy = NoLock]_vars

\* u1 has tapped the token whose path it was previewing: the preview is gone
\* and the release of the lock is on its way
C17_Witness ==
  /\ session["u1"].currentState = PREVIEWING_PATH
  /\ session["u1"].selectedToken = "t1"
  /\ ruler["u1"] = newRuler
  /\ outbox["u1"] = <<Req("unsetFlag", "t1", NoLock, NoPoint, "reset", 0)>>

\* the token that is not t
Other(t) == IF t = "t1" THEN "t2" ELSE "t1"

\* the step is the delivery to c of the last answer that c waits for
LastAnswer(c) ==
  /\ Deliver(c)
  /\ Head(inbox[c]).ack
  /\ outbox'[c] = <<>>
  /\ inbox'[c] = <<>>

\* C18: switching tokens. When u1 taps only with nothing pending, selects a
\* token and switches to the other from AWAITING_DESTINATION or
\* PREVIEWING_PATH, the last answer of the selection, or of the unsetFlag and
\* setFlag of the switch in either order, leaves u1 in AWAITING_DESTINATION
\* with the tapped token selected, its flag naming u1 and the flag of the other
\* token not naming u1.
C18_SwitchingTokens ==
  [][LastAnswer("u1") =>
       LET m == Head(inbox["u1"])
           e2 == IF m.k = "select" THEN m.token ELSE Other(m.token)
       IN  /\ session'["u1"].currentState = AWAITING_DESTINATION
           /\ session'["u1"].selectedToken = e2
           /\ mirror'["u1"][e2].lockedBy.userId = "u1"
           /\ mirror'["u1"][Other(e2)].lockedBy.userId # "u1"]_vars

\* the step is a tap of c on token t, which c neither owns nor is GM for
DeniedTap(c, t) ==
  /\ ~isOwner(c, t)
  /\ ~isGM(c)
  /\ TokenTap(c, t)

\* C19: permission denied. When u2, a player who does not own t2, taps t2,
\* selectToken sends no request and changes no session field: the session and
\* the requests of u2 are as the tap handler left them before the call (as
\* they were, or as cancelMovement left them when the tap came in
\* AWAITING_DESTINATION or PREVIEWING_PATH), no setFlag is among the requests,
\* and the warning is shown.
C19_PermissionDenied ==
  [][DeniedTap("u2", "t2") =>
       LET inWorkflow == session["u2"].currentState \in
                           {AWAITING_DESTINATION, PREVIEWING_PATH}
           before == IF inWorkflow THEN cancelMovement("u2", mirror["u2"], CS("u2"))
                     ELSE CS("u2")
       IN  /\ session'["u2"] = before.s
           /\ outbox'["u2"] = before.out
           /\ \A i \in 1..Len(outbox'["u2"]) :
                i > Len(outbox["u2"]) => outbox'["u2"][i].op # "setFlag"
           /\ ~inWorkflow => session'["u2"] = session["u2"] /\ outbox'["u2"] = outbox["u2"]
           /\ notice'["u2"].kind = "noPermission"]_vars

\* u2 has been refused t2: the warning is shown, the session is as new and no
\* token carries a lock
C19_Witness ==
  /\ notice["u2"].kind = "noPermission"
  /\ session["u2"] = newSession
  /\ outbox["u2"] = <<>>
  /\ \A t \in Tokens : doc[t].lockedBy = NoLock

\* the oldest message for c is a lockedBy flag written with the user id of c
OwnEcho(c) ==
  /\ inbox[c] # <<>>
  /\ Head(inbox[c]).ok
  /\ Head(inbox[c]).op = "setFlag"
  /\ Head(inbox[c]).lock.userId = c

\* the step is the arrival at c of a lockToken or unlockToken socket message
\* that carries the user id of c
OwnSocketMessage(c) ==
  \E data \in SocketMessages : data.userId = c /\ SocketMessage(c, data)

\* C20: own echoes are ignored. In every state of the session, the updateToken
\* hook leaves session, preview and requests of a client as they are when the
\* delivered lockedBy flag carries the client's own user id, and so does the
\* arrival of a lockToken or unlockToken socket message with the client's own
\* user id.
C20_OwnEchoesIgnored ==
  /\ [](\A c \in online :
          OwnEcho(c) =>
            LET m == Head(inbox[c])
                md == applyChange(mirror[c], m)
                hooked == updateTokenHook(c, md, m, CS(c))
            IN  /\ hooked.s = session[c]
                /\ hooked.r = ruler[c]
                /\ hooked.out = outbox[c])
  /\ [][\A c \in Users :
          OwnSocketMessage(c) =>
            /\ session'[c] = session[c]
            /\ ruler'[c] = ruler[c]
            /\ outbox'[c] = outbox[c]]_vars

\* u1 previews a path for t2, which it holds, after three inputs in all: its
\* own lock of t2 has come back a second time, or a socket message of its own,
\* and the preview stands
C20_Witness ==
  /\ events = 3
  /\ session["u1"].currentState = PREVIEWING_PATH
  /\ session["u1"].selectedToken = "t2"
  /\ ruler["u1"].currentPath # <<>>
  /\ doc["t2"].lockedBy.userId = "u1"
  /\ session["gm"] = newSession
  /\ \A u \in Users : outbox[u] = <<>> /\ inbox[u] = <<>>

\* the updates of the lockedBy flag of a token that can reach client c: a lock
\* written by any user at the present time, or the removal of the flag
FlagUpdates(c) ==
  {Msg(Req("setFlag", t, [userId |-> u, timestamp |-> now], NoPoint, "none", 0),
       u, c, TRUE) : t \in Tokens, u \in Users}
    \cup {Msg(Req("unsetFlag", t, NoLock, NoPoint, "none", 0), u, c, TRUE) :
            t \in Tokens, u \in Users}

\* what the arrival of update m does to the document copy md and the objects cs
\* of client c: the copy changes and the updateToken hook runs
Arrival(c, m, w) ==
  LET md == applyChange(w.md, m)
  IN  [md |-> md, cs |-> updateTokenHook(c, md, m, w.cs)]

\* the session, the preview, the flag requests and the document copy of a result
Observed(w) == <<w.cs.s, w.cs.r, w.cs.out, w.md>>

\* C21: duplicate delivery is idempotent. In every reachable state of a client
\* and for every lock or unlock update of a token, the arrival of the update
\* twice leaves the session, the preview, the requests issued for the flag and
\* the client's copy of the flag as its arrival once does.
C21_DuplicateDelivery ==
  \A c \in online : \A m \in FlagUpdates(c) :
     LET once == Arrival(c, m, [md |-> mirror[c], cs |-> CS(c)])
         twice == Arrival(c, m, once)
     IN  Observed(twice) = Observed(once)

\* the GM's lock of t2 has reached u1 while u1 previewed a path for it: u1 is
\* idle, the preview is gone, and the same update arriving again finds nothing
\* selected
C21_Witness ==
  /\ events = 3
  /\ session["u1"] = newSession
  /\ ruler["u1"] = newRuler
  /\ notice["u1"] = Note("tookControl", "gm")
  /\ mirror["u1"]["t2"].lockedBy.userId = "gm"
  /\ \A id \in LoopIds : ~loops["u1"][id].active

(***************************************************************************)
(* The colour of the path overlay (RulerPreview.simulateDrag)              *)
(***************************************************************************)
\* 0x00CCCC
CYAN == 52428

\* 0x00FF00
GREEN == 65280

\* 0xFFFF00
YELLOW == 16776960

\* 0xFF0000
RED == 16711680

\* variant of the colour choice: the ranges end before the available
\* movement and before its double
movementColorExclusive(distance, availableMovement) ==
  IF availableMovement = NoMovement THEN CYAN
  ELSE IF distance < availableMovement[1] THEN GREEN
  ELSE IF distance < availableMovement[1] * 2 THEN YELLOW
  ELSE RED

\* the colour simulateDrag determines from the distance of the path and the
\* available movement; a movement that is not null is <<m>>
movementColor(distance, availableMovement) ==
  IF availableMovement = NoMovement THEN CYAN
  ELSE IF distance <= availableMovement[1] THEN GREEN
  ELSE IF distance <= availableMovement[1] * 2 THEN YELLOW
  ELSE RED

MaxDistance == 12

MaxMovement == 8

Distances == 0..MaxDistance

Movements == {NoMovement} \cup {<<m>> : m \in 0..MaxMovement}

\* simulateDrag draws the path of a preview of the given distance for a token
\* of the given available movement
DrawOverlay(distance, availableMovement) ==
  /\ overlay' = [drawn |-> TRUE, distance |-> distance,
                 availableMovement |-> availableMovement,
                 color |-> movementColor(distance, availableMovement)]
  /\ UNCHANGED <<session, ruler, doc, mirror, outbox, inbox, loops, now, ticks, notice,
                 online, events, search, query, controls>>

NextOverlay == \E d \in Distances, m \in Movements : DrawOverlay(d, m)

SpecOverlay == InitWith({"u1"}) /\ [][NextOverlay]_vars

\* C30: the overlay of a previewed path of distance d for a token of available
\* movement m is green exactly when d <= m, yellow exactly when m < d <= 2m and
\* red exactly when d > 2m; it is cyan exactly when m is null.
C30_MovementCostTiers ==
  overlay.drawn =>
    LET d == overlay.distance
        m == overlay.availableMovement
    IN  /\ overlay.color \in {CYAN, GREEN, YELLOW, RED}
        /\ overlay.color = CYAN <=> m = NoMovement
        /\ m # NoMovement =>
             /\ overlay.color = GREEN <=> d <= m[1]
             /\ overlay.color = YELLOW <=> (m[1] < d /\ d <= 2 * m[1])
             /\ overlay.color = RED <=> d > 2 * m[1]

C30_Witness ==
  /\ overlay.drawn
  /\ overlay.availableMovement = <<6>>
  /\ overlay.distance = 12
  /\ overlay.color = YELLOW

(***************************************************************************)
(* One call of the pathfinding, followed iteration by iteration            *)
(***************************************************************************)
\* findPathAStar is called on scene sc: the lenient test of the destination,
\* then the initialisation of the search
FindPath(sc, startOffset, endOffset) ==
  /\ search.status = "idle"
  /\ search' = [status |-> IF isGridOffsetWithinBoundsOn(sc, endOffset, TRUE)
                           THEN "running" ELSE "null",
                scene |-> sc, startOffset |-> startOffset, endOffset |-> endOffset,
                st |-> searchStart(sc, startOffset, endOffset),
                iterations |-> 0, path |-> <<>>]
  /\ UNCHANGED <<session, ruler, doc, mirror, outbox, inbox, loops, now, ticks, notice,
                 online, events, overlay, query, controls>>

\* one iteration of the main loop; it returns the path when the destination
\* leaves the open set
Iterate ==
  /\ search.status = "running"
  /\ loopContinues(search.st, search.iterations)
  /\ \E it \in {aStarIteration(search.scene, search.st, search.endOffset)} :
         search' = [search EXCEPT !.status = IF it.found THEN "found" ELSE "running",
                                  !.st = it.st,
                                  !.iterations = @ + 1,
                                  !.path = it.path]
  /\ UNCHANGED <<session, ruler, doc, mirror, outbox, inbox, loops, now, ticks, notice,
                 online, events, overlay, query, controls>>

\* the loop ends without the destination: return null
GiveUp ==
  /\ search.status = "running"
  /\ ~loopContinues(search.st, search.iterations)
  /\ search' = [search EXCEPT !.status = "null"]
  /\ UNCHANGED <<session, ruler, doc, mirror, outbox, inbox, loops, now, ticks, notice,
                 online, events, overlay, query, controls>>

\* what getGridPath returns for a result of findPathAStar: null, or the
\* centres of the cells after the first
gridPathResult(sc, pathfindingResult) ==
  IF Len(pathfindingResult) > 0
  THEN [null |-> FALSE, positions |-> pathCenters(sc, pathfindingResult)]
  ELSE [null |-> TRUE, positions |-> <<>>]

\* the call has returned
Returned == search.status \in {"found", "null"}

\* Scenes on a square grid: rows and columns 0..MaxCell with up to MaxWalls of
\* the walls of WallChoices, and a scene without walls whose rectangle ends
\* Overhang pixels after the last grid line
MaxCell == 2

MaxWalls == 2

WallChoices ==
  << [c |-> <<100, 0, 100, 100>>, ds |-> 0, move |-> MoveNormal],
     [c |-> <<100, 100, 100, 200>>, ds |-> 0, move |-> MoveNormal],
     [c |-> <<100, 100, 200, 100>>, ds |-> 0, move |-> MoveNormal],
     [c |-> <<200, 0, 200, 100 * (MaxCell + 1)>>, ds |-> 0, move |-> MoveNormal],
     [c |-> <<0, 200, 100, 200>>, ds |-> DoorOpen, move |-> MoveNormal] >>

RECURSIVE PickWalls(_, _)
PickWalls(chosen, k) ==
  IF k > Len(WallChoices) THEN <<>>
  ELSE (IF k \in chosen THEN <<WallChoices[k]>> ELSE <<>>) \o PickWalls(chosen, k + 1)

\* the distance from the last grid line to the edge of a scene rectangle
\* that does not end on a grid line
Overhang == 10

SquareRect(overhang) ==
  [x |-> 0, y |-> 0, width |-> GridSize * (MaxCell + 1) + overhang,
   height |-> GridSize * (MaxCell + 1)]

SquareScenes ==
  {Scene(SQUARE, <<SquareRect(0)>>, PickWalls(chosen, 1)) :
     chosen \in {w \in SUBSET (1..Len(WallChoices)) : Cardinality(w) <= MaxWalls}}
    \cup {Scene(SQUARE, <<SquareRect(Overhang)>>, <<>>)}

\* the token stands in one of the first two columns of the scene, where the
\* walls are; the tap may fall one cell outside the scene
SquareStarts == {Off(r, q) : r \in 0..MaxCell, q \in 0..1}

SquareEnds == {Off(r, q) : r \in 0..(MaxCell + 1), q \in 0..(MaxCell + 1)}

NextPath ==
  \/ \E sc \in SquareScenes, s \in SquareStarts, e \in SquareEnds : FindPath(sc, s, e)
  \/ Iterate
  \/ GiveUp

SpecPath == InitWith({"u1"}) /\ [][NextPath]_vars

(***************************************************************************)
(* Reference for the claims on paths: every path of a scene, by relaxation *)
(***************************************************************************)
\* the cells of the scenes and those around them
Box == {Off(r, q) : r \in (-1)..(MaxCell + 2), q \in (-1)..(MaxCell + 2)}

\* the steps the search may take from cell a on scene sc: to the generated
\* neighbours that pass the bounds test of the main loop and are not across a
\* blocking wall
Onward(sc, a) ==
  {b \in {getNeighborsOn(sc, a)[n] : n \in 1..Len(getNeighborsOn(sc, a))} :
     /\ isGridOffsetWithinBoundsOn(sc, b, FALSE)
     /\ ~isBlockedByWallsOn(sc, cellCenterOn(sc, a), cellCenterOn(sc, b))}

\* dist holds <<cell, total>> for the cells reached so far; one more step
\* from each of them, keeping the least total of weight of every cell, until
\* nothing improves
RECURSIVE Relax(_, _, _)
Relax(sc, weight(_, _), dist) ==
  LET cand == dist \cup UNION {{<<b, p[2] + weight(p[1], b)>> : b \in Onward(sc, p[1])} :
                                 p \in dist}
      next == {q \in cand : \A r \in cand : r[1] = q[1] => q[2] <= r[2]}
  IN  IF next = dist THEN dist ELSE Relax(sc, weight, next)

\* the least total of weight over all paths of steps from startOffset, for
\* every cell such a path reaches
Cheapest(sc, weight(_, _), startOffset) == Relax(sc, weight, {<<startOffset, 0>>})

Reaches(best, cell) == \E q \in best : q[1] = cell

TotalTo(best, cell) == (CHOOSE q \in best : q[1] = cell)[2]

\* the cost of a path of cells, as gScore adds it up
RECURSIVE PathCost(_)
PathCost(path) ==
  IF Len(path) < 2 THEN 0
  ELSE getMoveCost(path[1], path[2]) + PathCost(Tail(path))

\* C22: on a square grid, whenever a path of in-bounds steps that cross no
\* blocking wall leads from the start to the destination, findPathAStar
\* returns a path, and its cost (1 per orthogonal step, 1.41 per diagonal
\* step) is the least cost of all such paths.
C22_OptimalSquare ==
  (Returned /\ search.scene.type = SQUARE) =>
    LET best == Cheapest(search.scene, getMoveCost, search.startOffset)
    IN  /\ Reaches(best, search.endOffset) =>
              /\ search.status = "found"
              /\ PathCost(search.path) = TotalTo(best, search.endOffset)
        /\ search.status = "found" => Reaches(best, search.endOffset)

C22_Witness ==
  /\ search.status = "found"
  /\ search.scene.type = SQUARE
  /\ Len(search.scene.walls) = 2
  /\ search.startOffset = Off(0, 0)
  /\ search.endOffset = Off(0, 1)
  /\ Len(search.path) = 6
  /\ PathCost(search.path) = 500

\* what getGridPath returns once findPathAStar has returned
GridPath ==
  gridPathResult(search.scene, IF search.status = "found" THEN search.path ELSE <<>>)

\* the origin cell followed by the cells of the returned positions
Route == <<search.startOffset>> \o [k \in 1..Len(GridPath.positions) |->
                                       getOffset(GridPath.positions[k])]

Current == Head(sortByFScore(search.st.open, search.st.f))

\* cell b is a generated neighbour of cell a and a blocking wall lies between
\* their centres
BehindWall(sc, a, b) ==
  /\ \E n \in 1..Len(getNeighborsOn(sc, a)) : getNeighborsOn(sc, a)[n] = b
  /\ isBlockedByWallsOn(sc, cellCenterOn(sc, a), cellCenterOn(sc, b))

\* C25: an iteration closes no in-bounds neighbour of the current cell that it
\* skips because a wall blocks the edge to it; and a destination skipped in
\* this way from an examined cell is still found whenever a sequence of
\* unblocked in-bounds steps leads to it, while a search that ends without a
\* path has examined every cell such a sequence reaches.
C25_WallEdgesDoNotExclude ==
  /\ [][(search.status = "running" /\ search'.status = "running"
           /\ search'.iterations = search.iterations + 1) =>
          \A b \in Box :
             (/\ BehindWall(search.scene, Current, b)
              /\ isGridOffsetWithinBoundsOn(search.scene, b, FALSE)
              /\ b \notin search.st.closed) => b \notin search'.st.closed]_vars
  /\ [](Returned =>
          LET best == Cheapest(search.scene, getMoveCost, search.startOffset)
          IN  /\ (/\ \E a \in search.st.closed :
                        BehindWall(search.scene, a, search.endOffset)
                  /\ Reaches(best, search.endOffset)) => search.status = "found"
              /\ (search.status = "null" /\ search.st.open = <<>> /\ search.iterations > 0)
                    => \A q \in best : q[1] \in search.st.closed)

C25_Witness ==
  /\ search.status = "found"
  /\ search.startOffset = Off(1, 0)
  /\ search.endOffset = Off(1, 1)
  /\ Len(search.scene.walls) = 1
  /\ search.startOffset \in search.st.closed
  /\ BehindWall(search.scene, search.startOffset, search.endOffset)
  /\ search.endOffset \notin search.st.closed
  /\ Len(search.path) = 4

\* the square of a cell and the rectangle of the scene share an area
Overlaps(sc, cell) ==
  LET topLeft == gridTopLeft(sc.type, cell)
      rect == sc.bounds[1]
  IN  /\ topLeft.x < rect.x + rect.width
      /\ topLeft.x + GridSize > rect.x
      /\ topLeft.y < rect.y + rect.height
      /\ topLeft.y + GridSize > rect.y

\* C26: no position returned by getGridPath lies in a cell that fails the
\* bounds test of the search; in particular every such cell overlaps the
\* rectangle of the scene.
C26_NoOutOfBoundsCells ==
  (Returned /\ ~GridPath.null /\ search.scene.bounds # <<>>) =>
    \A k \in 1..Len(GridPath.positions) :
       /\ isGridOffsetWithinBoundsOn(search.scene, getOffset(GridPath.positions[k]), FALSE)
       /\ Overlaps(search.scene, getOffset(GridPath.positions[k]))

C26_Witness ==
  /\ search.status = "found"
  /\ search.scene.walls = <<>>
  /\ search.startOffset = Off(0, 0)
  /\ search.endOffset = Off(2, 2)
  /\ Len(GridPath.positions) = 2
  /\ Off(-1, 0) \in search.st.closed
  /\ ~Overlaps(search.scene, Off(-1, 0))

\* the destination overlaps the scene rectangle in part only, its centre
\* more than a third of a cell outside
EdgeDestination ==
  /\ search.scene.bounds # <<>>
  /\ isGridOffsetWithinBoundsOn(search.scene, search.endOffset, TRUE)
  /\ ~isGridOffsetWithinBoundsOn(search.scene, search.endOffset, FALSE)

\* C28: a destination cell that overlaps the scene bounds in part only, its
\* centre outside the one-third-cell tolerance, is still reachable:
\* findPathAStar returns a path to it whenever one of the cells it is a
\* neighbour of is reached from the start by in-bounds steps and no blocking
\* wall lies on the edge between the two.
C28_LenientDestination ==
  (Returned /\ EdgeDestination) =>
    LET best == Cheapest(search.scene, getMoveCost, search.startOffset)
    IN  (\E q \in best :
            /\ \E n \in 1..Len(getNeighborsOn(search.scene, q[1])) :
                  getNeighborsOn(search.scene, q[1])[n] = search.endOffset
            /\ ~isBlockedByWallsOn(search.scene, cellCenterOn(search.scene, q[1]),
                                   cellCenterOn(search.scene, search.endOffset)))
          => search.status = "found"

\* wall w blocks movement and runs along the whole edge that the cells a and
\* b, orthogonal neighbours, share
AcrossSharedEdge(w, a, b) ==
  LET lowX == Min(w.c[1], w.c[3])
      highX == Max(w.c[1], w.c[3])
      lowY == Min(w.c[2], w.c[4])
      highY == Max(w.c[2], w.c[4])
      row == Max(a.i, b.i)
      col == Max(a.j, b.j)
  IN  /\ w.ds # DoorOpen /\ w.move # MoveNone
      /\ \/ /\ a.i = b.i /\ Abs(a.j - b.j) = 1
            /\ lowX = col * GridSize /\ highX = col * GridSize
            /\ lowY <= a.i * GridSize /\ highY >= (a.i + 1) * GridSize
         \/ /\ a.j = b.j /\ Abs(a.i - b.i) = 1
            /\ lowY = row * GridSize /\ highY = row * GridSize
            /\ lowX <= a.j * GridSize /\ highX >= (a.j + 1) * GridSize

\* the segment between the centres of two cells meets wall w
Crosses(sc, a, b, w) ==
  LET ca == cellCenterOn(sc, a)
      cb == cellCenterOn(sc, b)
  IN  lineSegmentsIntersect(ca.x, ca.y, cb.x, cb.y, w.c[1], w.c[2], w.c[3], w.c[4])

\* C29: when origin and destination are orthogonal neighbours on a square
\* grid and a blocking wall lies across the whole of their shared edge, a
\* returned path has at least three cells and none of its steps passes
\* through that wall.
C29_WallForcesDetour ==
  (Returned /\ ~GridPath.null /\ search.scene.type = SQUARE) =>
    \A n \in 1..Len(search.scene.walls) :
       AcrossSharedEdge(search.scene.walls[n], search.startOffset, search.endOffset) =>
         /\ Len(GridPath.positions) >= 3
         /\ \A k \in 1..Len(GridPath.positions) :
               ~Crosses(search.scene, Route[k], Route[k + 1], search.scene.walls[n])

C29_Witness ==
  /\ search.status = "found"
  /\ search.startOffset = Off(0, 0)
  /\ search.endOffset = Off(0, 1)
  /\ Len(search.scene.walls) = 1
  /\ AcrossSharedEdge(search.scene.walls[1], search.startOffset, search.endOffset)
  /\ Len(GridPath.positions) = 3

(***************************************************************************)
(* The pathfinding on hexagonal grids                                      *)
(***************************************************************************)
\* Scenes on hexagonal grids of rows 0..MaxHexRow and columns 0..MaxHexCol,
\* without walls or with one short wall between the centres of two cells of
\* the same row (row layouts) or column (column layouts)
MaxHexRow == 3

MaxHexCol == 4

HexRect ==
  [x |-> 0, y |-> 0, width |-> GridSize * (MaxHexCol + 1) + (GridSize \div 2),
   height |-> GridSize * (MaxHexRow + 1)]

\* a wall between the centres of the cells of row 1, columns 0 and 1
HexRowWall == [c |-> <<150, 120, 150, 150>>, ds |-> 0, move |-> MoveNormal]

\* a wall between the centres of the cells of column 1, rows 0 and 1
HexColWall == [c |-> <<120, 150, 150, 150>>, ds |-> 0, move |-> MoveNormal]

HexScenes ==
  {Scene(type, <<HexRect>>, walls) :
     type \in {HEXODDR, HEXEVENR}, walls \in {<<>>, <<HexRowWall>>}}
    \cup {Scene(type, <<HexRect>>, walls) :
            type \in {HEXODDC, HEXEVENC}, walls \in {<<>>, <<HexColWall>>}}

HexStarts == {Off(r, q) : r \in 0..MaxHexRow, q \in 0..1}

HexEnds == {Off(r, q) : r \in 0..MaxHexRow, q \in 0..MaxHexCol}

NextHex ==
  \/ \E sc \in HexScenes, s \in HexStarts, e \in HexEnds : FindPath(sc, s, e)
  \/ Iterate
  \/ GiveUp

SpecHex == InitWith({"u1"}) /\ [][NextHex]_vars

\* every step counts 1
OneStep(a, b) == 1

\* C23: on a hexagonal grid findPathAStar returns, for every destination that
\* a sequence of in-bounds steps between generated neighbours crossing no
\* blocking wall reaches, a path with the least number of steps of all such
\* sequences.
C23_OptimalHex ==
  (Returned /\ search.scene.type >= HEXODDR) =>
    LET fewest == Cheapest(search.scene, OneStep, search.startOffset)
    IN  Reaches(fewest, search.endOffset) =>
          /\ search.status = "found"
          /\ Len(search.path) - 1 = TotalTo(fewest, search.endOffset)

(***************************************************************************)
(* The iteration budget of the pathfinding: whole calls                    *)
(***************************************************************************)
\* the main loop seen from outside: a running call makes one iteration or
\* leaves the loop and returns null; a call that has returned stays as it is
advance(sc, endOffset, run) ==
  IF run.status # "running" THEN run
  ELSE IF ~loopContinues(run.st, run.iterations) THEN [run EXCEPT !.status = "null"]
  ELSE LET it == aStarIteration(sc, run.st, endOffset)
       IN  [status |-> IF it.found THEN "found" ELSE "running",
            st |-> it.st,
            iterations |-> run.iterations + 1,
            path |-> it.path]

\* n times advance, one half of them after the other
RECURSIVE advanceBy(_, _, _, _)
advanceBy(sc, endOffset, run, n) ==
  IF run.status # "running" THEN run
  ELSE IF n = 1 THEN advance(sc, endOffset, run)
  ELSE advanceBy(sc, endOffset, advanceBy(sc, endOffset, run, n \div 2), n - (n \div 2))

\* a whole call of findPathAStar: the loop is followed for as many iterations
\* as the budget has, and one more step in which it is left
FindPathToEnd(sc, startOffset, endOffset) ==
  /\ search.status = "idle"
  /\ \E run \in {IF isGridOffsetWithinBoundsOn(sc, endOffset, TRUE)
                THEN advanceBy(sc, endOffset,
                               [status |-> "running",
                                st |-> searchStart(sc, startOffset, endOffset),
                                iterations |-> 0, path |-> <<>>],
                               MAX_PATHFINDING_ITERATIONS + 1)
                ELSE [status |-> "null", st |-> searchStart(sc, startOffset, endOffset),
                      iterations |-> 0, path |-> <<>>]} :
         search' = [status |-> run.status, scene |-> sc, startOffset |-> startOffset,
                    endOffset |-> endOffset, st |-> run.st,
                    iterations |-> run.iterations, path |-> run.path]
  /\ UNCHANGED <<session, ruler, doc, mirror, outbox, inbox, loops, now, ticks, notice,
                 online, events, overlay, query, controls>>

\* a corridor one cell wide along row 0, longer than the budget: a wall on
\* each side and one at its left end; the scene has no determinable bounds
CorridorWalls ==
  << [c |-> <<0, 0, GridSize * (MAX_PATHFINDING_ITERATIONS + 2), 0>>,
      ds |-> 0, move |-> MoveNormal],
     [c |-> <<0, GridSize, GridSize * (MAX_PATHFINDING_ITERATIONS + 2), GridSize>>,
      ds |-> 0, move |-> MoveNormal],
     [c |-> <<0, 0, 0, GridSize>>, ds |-> 0, move |-> MoveNormal] >>

\* the same corridor closed after its third cell
ClosedCorridorWalls ==
  Append(CorridorWalls, [c |-> <<3 * GridSize, 0, 3 * GridSize, GridSize>>,
                         ds |-> 0, move |-> MoveNormal])

BudgetScenes == {Scene(SQUARE, <<>>, CorridorWalls), Scene(SQUARE, <<>>, ClosedCorridorWalls)}

\* destinations near the start of the corridor, and one farther along it than
\* the budget reaches from its first cell
MaxNear == 50

BudgetEnds == {Off(0, q) : q \in 0..MaxNear} \cup {Off(0, MAX_PATHFINDING_ITERATIONS + 1)}

NextBudget == \E sc \in BudgetScenes, e \in BudgetEnds : FindPathToEnd(sc, Off(0, 0), e)

SpecBudget == InitWith({"u1"}) /\ [][NextBudget]_vars

\* C27: every call of findPathAStar returns, also on a scene without
\* determinable bounds, after at most 5000 iterations of its main loop; a call
\* that has used the budget without taking the destination from the open set
\* returns null and no path, as a call whose open set became empty does.
C27_BoundedSearch ==
  search.status # "idle" =>
    /\ Returned
    /\ search.iterations <= MAX_PATHFINDING_ITERATIONS
    /\ search.status = "found" =>
         search.path # <<>> /\ search.path[Len(search.path)] = search.endOffset
    /\ search.status = "null" => search.path = <<>> /\ GridPath.null
    /\ (\/ \E x \in 1..Len(search.st.open) : search.st.open[x] = search.endOffset
        \/ search.endOffset \notin DOMAIN search.st.g) => search.status = "null"

C27_Witness ==
  /\ search.status = "null"
  /\ search.scene.bounds = <<>>
  /\ search.iterations = MAX_PATHFINDING_ITERATIONS
  /\ search.st.open = <<Off(0, MAX_PATHFINDING_ITERATIONS)>>
  /\ search.endOffset = Off(0, MAX_PATHFINDING_ITERATIONS + 1)
  /\ GridPath.null


(***************************************************************************)
(* Claims on the session fields and the canvas taps                        *)
(***************************************************************************)
\* the selected token of c stands, as c sees it, in the cell of the tap p
InOwnCell(c, p) ==
  /\ session[c].selectedToken # NoToken
  /\ getOffset(SelectedOrigin(c)) = getOffset(TapSnapped(p))

\* the step is a tap of c at p that handleCanvasTap takes as a new destination
DestinationTap(c, p) ==
  /\ session[c].currentState \in {AWAITING_DESTINATION, PREVIEWING_PATH}
  /\ ~isConfirmationTap(session[c], TapSnapped(p))
  /\ CanvasTap(c, p)

\* the most inputs of SpecEdge
MaxEdgeEvents == 6

\* the taps of SpecEdge: the cell of t1 and the cell left of it, outside the scene
EdgeTapPoints == {TapCell21, TapOutside}

(***************************************************************************)
(* SpecEdge: one player who moves t1 between its cell and the cell left of *)
(* the scene                                                               *)
(***************************************************************************)
NextEdge ==
  \/ events < MaxEdgeEvents /\ TokenTap("u1", "t1")
  \/ \E p \in EdgeTapPoints : events < MaxEdgeEvents /\ CanvasTap("u1", p)
  \/ ServerApply("u1", TRUE)
  \/ Deliver("u1")

SpecEdge == Init /\ [][NextEdge]_vars

\* C31: already at destination is silent. A destination tap of u1 on the cell
\* its selected token stands in leaves no preview, raises no notification and
\* issues no position update, and a further tap of u1 at that location,
\* while the token stands there, issues no position update.
C31_AlreadyAtDestination ==
  [][\A p \in EdgeTapPoints :
       /\ (InOwnCell("u1", p) /\ DestinationTap("u1", p))
            => /\ ruler'["u1"] = newRuler
               /\ notice'["u1"] = notice["u1"]
               /\ ~IssuesUpdate("u1")
       /\ (/\ InOwnCell("u1", p)
           /\ session["u1"].lastTapPosition = TapSnapped(p)
           /\ CanvasTap("u1", p))
            => ~IssuesUpdate("u1")]_vars


\* the position update that the step of c appends to its requests
IssuedUpdate(c) == outbox'[c][Len(outbox'[c])]

\* C32: a session only moves a token it holds the lock for. Whenever a client
\* issues a position update for a token, the first of a movement or one of its
\* further waypoints, the lockedBy flag of that token, as the client reads
\* it, names that client.
C32_MovesOnlyLockedToken ==
  [][\A c \in {"u1", "gm"} :
       IssuesUpdate(c)
         => mirror[c][IssuedUpdate(c).token].lockedBy.userId = c]_vars


\* C33: session fields stay consistent. In every reachable state the session
\* of u1 is IDLE exactly when no token is selected, an IDLE session has no
\* preview destination and no confirmation anchor, and a session in
\* PREVIEWING_PATH or EXECUTING_MOVEMENT has both.
C33_SessionConsistent ==
  LET s == session["u1"]
  IN  /\ (s.currentState = IDLE) <=> (s.selectedToken = NoToken)
      /\ (s.currentState = IDLE)
            => (s.previewDestination = NoPoint /\ s.lastTapPosition = NoPoint)
      /\ (s.currentState \in {PREVIEWING_PATH, EXECUTING_MOVEMENT})
            => (s.previewDestination # NoPoint /\ s.lastTapPosition # NoPoint)


\* C34: canvas taps outside the destination states change nothing. A canvas
\* tap of u1 while its session is in IDLE, EXECUTING_MOVEMENT or ERROR leaves
\* the state, the selected token, the preview destination, the confirmation
\* anchor and the stored path as they were, changes no lockedBy flag on the
\* server or in the copy of u1, and sends no request.
C34_TapsElsewhereChangeNothing ==
  [][\A p \in TapPoints :
       (/\ session["u1"].currentState \in {IDLE, EXECUTING_MOVEMENT, ERROR}
        /\ CanvasTap("u1", p))
       => /\ SessionFields(session'["u1"]) = SessionFields(session["u1"])
          /\ ruler'["u1"].currentPath = ruler["u1"].currentPath
          /\ \A t \in Tokens : /\ doc'[t].lockedBy = doc[t].lockedBy
                                /\ mirror'["u1"][t].lockedBy = mirror["u1"][t].lockedBy
          /\ outbox'["u1"] = outbox["u1"]]_vars

\* the fourth input of u1 has left a session in ERROR as the rejected update
\* of a one-waypoint movement of t1 made it: the token kept, the timer armed,
\* the preview cleared and the lock still held
C34_Witness ==
  /\ events = 4
  /\ session["u1"].currentState = ERROR
  /\ session["u1"].selectedToken = "t1"
  /\ session["u1"].lastTapPosition = TapSnapped(TapCell11)
  /\ session["u1"].errorTimeout = "armed"
  /\ ruler["u1"] = newRuler
  /\ doc["t1"].lockedBy.userId = "u1"
  /\ outbox["u1"] = <<>>
  /\ inbox["u1"] = <<>>


(***************************************************************************)
(* The geometry functions when the canvas data cannot be read              *)
(***************************************************************************)
\* the outcome of a block of code: a returned value or a thrown exception
Value(v) == [thrown |-> FALSE, value |-> v]

Raised == [thrown |-> TRUE, value |-> FALSE]

\* an entry of canvas.walls.placeables: a placeable with its document, a raw
\* object that carries ds, move and c itself, or null; c is <<>> when the
\* coordinates are undefined
WallEntry(kind, ds, move, c) == [kind |-> kind, ds |-> ds, move |-> move, c |-> c]

\* canvas as the geometry functions read it: grid is "ok", "missing"
\* (canvas.grid undefined) or "throws" (getTopLeftPoint throws); bounds is what
\* getSceneBounds returns, <<>> for null; walls is <<>> when canvas.walls is
\* undefined and <<placeables>> otherwise
CanvasData(grid, type, bounds, walls) ==
  [grid |-> grid, type |-> type, bounds |-> bounds, walls |-> walls]

\* the loop over the walls in the try block of RulerPreview.isBlockedByWalls
RECURSIVE blockedByWallsLoop(_, _, _, _)
blockedByWallsLoop(walls, k, from, to) ==
  IF k > Len(walls) THEN Value(FALSE)
  ELSE LET wall == walls[k]
       IN  IF wall.kind = "null" THEN Raised
           ELSE IF wall.ds = DoorOpen THEN blockedByWallsLoop(walls, k + 1, from, to)
           ELSE IF wall.move = MoveNone THEN blockedByWallsLoop(walls, k + 1, from, to)
           ELSE IF Len(wall.c) < 4 THEN blockedByWallsLoop(walls, k + 1, from, to)
           ELSE IF lineSegmentsIntersect(from.x, from.y, to.x, to.y,
                                         wall.c[1], wall.c[2], wall.c[3], wall.c[4])
             THEN Value(TRUE)
           ELSE blockedByWallsLoop(walls, k + 1, from, to)

\* variant of the catch of isBlockedByWalls: an error reports the move as free
blockedOnErrorOpen(outcome) == IF outcome.thrown THEN Value(FALSE) ELSE outcome

\* the catch of RulerPreview.isBlockedByWalls: on error, assume blocked
blockedOnError(outcome) == IF outcome.thrown THEN Value(TRUE) ELSE outcome

\* RulerPreview.isBlockedByWalls on canvas data cv
isBlockedByWallsAt(cv, from, to) ==
  LET walls == IF cv.walls = <<>> THEN <<>> ELSE cv.walls[1]
  IN  blockedOnError(blockedByWallsLoop(walls, 1, from, to))

\* the two loops in the try block of isPathClear: segment i of the waypoints
\* against wall k
RECURSIVE pathClearLoop(_, _, _, _)
pathClearLoop(walls, waypoints, i, k) ==
  IF i > Len(waypoints) - 1 THEN Value(TRUE)
  ELSE IF k > Len(walls) THEN pathClearLoop(walls, waypoints, i + 1, 1)
  ELSE LET wall == walls[k]
           from == waypoints[i]
           to == waypoints[i + 1]
       IN  IF wall.kind # "placeable" THEN Raised
           ELSE IF wall.ds = DoorOpen THEN pathClearLoop(walls, waypoints, i, k + 1)
           ELSE IF wall.move = MoveNone THEN pathClearLoop(walls, waypoints, i, k + 1)
           ELSE IF wall.c = <<>> THEN Raised
           ELSE IF lineSegmentsIntersect(from.x, from.y, to.x, to.y,
                                         wall.c[1], wall.c[2], wall.c[3], wall.c[4])
             THEN Value(FALSE)
           ELSE pathClearLoop(walls, waypoints, i, k + 1)

\* the catch of isPathClear: default to blocked
clearOnError(outcome) == IF outcome.thrown THEN Value(FALSE) ELSE outcome

\* isPathClear(token, waypoints) on canvas data cv
isPathClear(cv, waypoints) ==
  IF cv.walls = <<>> \/ Len(waypoints) < 2 THEN Value(TRUE)
  ELSE clearOnError(pathClearLoop(cv.walls[1], waypoints, 1, 1))

\* the catch of RulerPreview.isGridOffsetWithinBounds: an error counts as inside
inBoundsOnError(outcome) == IF outcome.thrown THEN Value(TRUE) ELSE outcome

\* RulerPreview.isGridOffsetWithinBounds on canvas data cv
isGridOffsetWithinBoundsAt(cv, offset, lenient) ==
  IF cv.grid = "missing" THEN Value(TRUE)
  ELSE inBoundsOnError(
         IF cv.grid = "throws" THEN Raised
         ELSE Value(isGridOffsetWithinBoundsOn(Scene(cv.type, cv.bounds, <<>>),
                                               offset, lenient)))

\* RulerPreview.isWithinBounds on canvas data cv
isWithinBoundsAt(cv, position) ==
  IF cv.bounds = <<>> THEN Value(TRUE)
  ELSE LET bounds == cv.bounds[1]
       IN  Value(/\ position.x >= bounds.x
                 /\ position.x <= bounds.x + bounds.width
                 /\ position.y >= bounds.y
                 /\ position.y <= bounds.y + bounds.height)

\* the one call of a geometry function that a behaviour follows: its canvas
\* data, its arguments, its outcome
Ask(fn, cv, args, outcome) ==
  /\ query = NoQuery
  /\ query' = [fn |-> fn, canvas |-> cv, args |-> args, outcome |-> outcome]
  /\ UNCHANGED <<session, ruler, doc, mirror, outbox, inbox, loops, now, ticks, notice,
                 online, events, search, overlay, controls>>

AskBlockedByWalls(cv, from, to) ==
  Ask("isBlockedByWalls", cv, <<from, to>>, isBlockedByWallsAt(cv, from, to))

AskPathClear(cv, waypoints) ==
  Ask("isPathClear", cv, waypoints, isPathClear(cv, waypoints))

AskGridOffsetWithinBounds(cv, offset, lenient) ==
  Ask("isGridOffsetWithinBounds", cv, <<offset, lenient>>,
      isGridOffsetWithinBoundsAt(cv, offset, lenient))

AskWithinBounds(cv, position) ==
  Ask("isWithinBounds", cv, <<position>>, isWithinBoundsAt(cv, position))

(***************************************************************************)
(* SpecOracle: the four geometry functions called on canvas data of which  *)
(* parts are missing or unreadable                                         *)
(***************************************************************************)
\* the entries a wall list is made of: a wall across the move from the cell
\* of row 0, column 0 to its right neighbour, the same wall as a raw object,
\* an open door across it, a wall elsewhere, a wall without coordinates, null
OracleEntries ==
  { WallEntry("placeable", 0, MoveNormal, <<100, 0, 100, 100>>),
    WallEntry("raw", 0, MoveNormal, <<100, 0, 100, 100>>),
    WallEntry("placeable", DoorOpen, MoveNormal, <<100, 0, 100, 100>>),
    WallEntry("placeable", 0, MoveNormal, <<300, 100, 300, 200>>),
    WallEntry("placeable", 0, MoveNormal, <<>>),
    WallEntry("null", 0, MoveNone, <<>>) }

\* canvas.walls undefined, or a list of at most MaxWalls entries
OracleWalls ==
  {<<>>} \cup {<<walls>> : walls \in UNION {[1..n -> OracleEntries] : n \in 0..MaxWalls}}

OracleBounds == {<<>>, <<SceneRect>>}

\* the centres of the cells the moves and the waypoints run between
OraclePoints == {cellCenter(Off(0, 0)), cellCenter(Off(0, 1)), cellCenter(Off(1, 0))}

OracleWaypoints ==
  {<<>>} \cup {<<a>> : a \in OraclePoints}
    \cup {w \in {<<a, b>> : a \in OraclePoints, b \in OraclePoints} : w[1] # w[2]}

NextOracle ==
  \/ \E w \in OracleWalls, a \in OraclePoints, b \in OraclePoints :
       query = NoQuery /\ a # b /\ AskBlockedByWalls(CanvasData("ok", SQUARE, <<SceneRect>>, w), a, b)
  \/ \E w \in OracleWalls, waypoints \in OracleWaypoints :
       AskPathClear(CanvasData("ok", SQUARE, <<SceneRect>>, w), waypoints)
  \/ \E g \in {"ok", "missing", "throws"}, b \in OracleBounds,
        r \in 0..MaxCell, q \in 0..MaxCell, lenient \in BOOLEAN :
       AskGridOffsetWithinBounds(CanvasData(g, SQUARE, b, <<>>), Off(r, q), lenient)
  \/ \E b \in OracleBounds, p \in TapPoints :
       AskWithinBounds(CanvasData("ok", SQUARE, b, <<>>), TapSnapped(p))

SpecOracle == Init /\ [][NextOracle]_vars

\* the walls of the last call
AskedWalls == query.canvas.walls[1]

\* an entry that isBlockedByWalls cannot read: it is null
UnreadableForBlocked(wall) == wall.kind = "null"

\* an entry that isPathClear cannot read: it has no document, or it is a wall
\* that blocks movement and has no coordinates
UnreadableForClear(wall) ==
  \/ wall.kind # "placeable"
  \/ wall.ds # DoorOpen /\ wall.move # MoveNone /\ wall.c = <<>>

HexTypes == {HEXODDR, HEXEVENR, HEXODDC, HEXEVENC}

\* the cells getNeighbors is called for, and the cells around them
NeighborCells == {Off(r, q) : r \in 0..MaxHexCol, q \in 0..MaxHexCol}

Around(a) == {Off(a.i + di, a.j + dj) : di \in -2..2, dj \in -2..2}

AskNeighbors(type, offset) ==
  Ask("getNeighbors", CanvasData("ok", type, <<>>, <<>>), <<offset>>,
      Value(getNeighborsOn(Scene(type, <<>>, <<>>), offset)))

NextNeighbors ==
  /\ query = NoQuery
  /\ \E type \in HexTypes, offset \in NeighborCells : AskNeighbors(type, offset)

SpecNeighbors == Init /\ [][NextNeighbors]_vars

\* two hexagons of the grid share an edge: their centres are one cell apart
\* (the centres of the nearest hexagons that share none are 1.7 cells apart)
Adjacent(type, a, b) ==
  /\ a # b
  /\ Dist2(cellCenterOn(Scene(type, <<>>, <<>>), a),
           cellCenterOn(Scene(type, <<>>, <<>>), b)) < 2 * GridSize * GridSize

\* C36: hex neighbour generation per scheme. On each of the four hexagonal
\* grid types getNeighbors yields, for every cell, six cells, and they are
\* exactly the six cells adjacent to it on that grid type.
C36_HexNeighbors ==
  query.fn = "getNeighbors" =>
    LET type == query.canvas.type
        a == query.args[1]
        neighbors == query.outcome.value
    IN  /\ Len(neighbors) = 6
        /\ {neighbors[k] : k \in 1..6} = {b \in Around(a) : Adjacent(type, a, b)}


(***************************************************************************)
(* SpecSegments: lineSegmentsIntersect on coordinates in thousandths of a  *)
(* pixel                                                                   *)
(***************************************************************************)
\* the 0.0001 of lineSegmentsIntersect, for a determinant of coordinates in
\* thousandths of a pixel (millionths of a square pixel)
ParallelTolerance == 100

\* variant of lineSegmentsIntersect: only a zero determinant counts as parallel
lineSegmentsIntersectExact(x1, y1, x2, y2, x3, y3, x4, y4) ==
  LET denom == ((y4 - y3) * (x2 - x1)) - ((x4 - x3) * (y2 - y1))
      na == ((x4 - x3) * (y1 - y3)) - ((y4 - y3) * (x1 - x3))
      nb == ((x2 - x1) * (y1 - y3)) - ((y2 - y1) * (x1 - x3))
      InUnit(n) == IF denom > 0 THEN n >= 0 /\ n <= denom
                   ELSE n <= 0 /\ n >= denom
  IN  IF denom = 0 THEN FALSE ELSE InUnit(na) /\ InUnit(nb)

\* utils.lineSegmentsIntersect on coordinates given in thousandths of a pixel:
\* Math.abs(denom) < 0.0001 first, then ua and ub, which are num/denom,
\* compared with 0 and 1 without dividing
lineSegmentsIntersectMilli(x1, y1, x2, y2, x3, y3, x4, y4) ==
  LET denom == ((y4 - y3) * (x2 - x1)) - ((x4 - x3) * (y2 - y1))
      na == ((x4 - x3) * (y1 - y3)) - ((y4 - y3) * (x1 - x3))
      nb == ((x2 - x1) * (y1 - y3)) - ((y2 - y1) * (x1 - x3))
      InUnit(n) == IF denom > 0 THEN n >= 0 /\ n <= denom
                   ELSE n <= 0 /\ n >= denom
  IN  IF Abs(denom) < ParallelTolerance THEN FALSE ELSE InUnit(na) /\ InUnit(nb)

\* the largest coordinate of an end point, in steps
MaxCoord == 2

\* the lengths of a step in thousandths of a pixel: a thousandth, five
\* thousandths, a pixel
SegmentSteps == {1, 5, 1000}

SegmentCoords == 0..MaxCoord

AskIntersect(x1, y1, x2, y2, x3, y3, x4, y4) ==
  Ask("lineSegmentsIntersect", CanvasData("ok", SQUARE, <<>>, <<>>),
      <<x1, y1, x2, y2, x3, y3, x4, y4>>,
      Value(lineSegmentsIntersectMilli(x1, y1, x2, y2, x3, y3, x4, y4)))

NextSegments ==
  /\ query = NoQuery
  /\ \E s \in SegmentSteps :
    \E x1 \in SegmentCoords, y1 \in SegmentCoords, x2 \in SegmentCoords,
       y2 \in SegmentCoords, x3 \in SegmentCoords, y3 \in SegmentCoords,
       x4 \in SegmentCoords, y4 \in SegmentCoords :
      AskIntersect(s * x1, s * y1, s * x2, s * y2, s * x3, s * y3, s * x4, s * y4)

SpecSegments == Init /\ [][NextSegments]_vars

\* the end points of the two segments of the last call
SegA == [x |-> query.args[1], y |-> query.args[2]]

SegB == [x |-> query.args[3], y |-> query.args[4]]

SegC == [x |-> query.args[5], y |-> query.args[6]]

SegD == [x |-> query.args[7], y |-> query.args[8]]

Sign(n) == IF n > 0 THEN 1 ELSE IF n < 0 THEN -1 ELSE 0

\* twice the signed area of the triangle o, p, q
Orient(o, p, q) == (p.x - o.x) * (q.y - o.y) - (p.y - o.y) * (q.x - o.x)

\* the determinant of the directions of the segments ab and cd
Determinant(a, b, c, d) == (b.x - a.x) * (d.y - c.y) - (b.y - a.y) * (d.x - c.x)

\* for segments that are not parallel: the point where their lines meet lies
\* on both, the end points included (the ends of each segment are not strictly
\* on one side of the line of the other)
MeetWithin(a, b, c, d) ==
  /\ Sign(Orient(a, b, c)) * Sign(Orient(a, b, d)) <= 0
  /\ Sign(Orient(c, d, a)) * Sign(Orient(c, d, b)) <= 0

\* C37 as stated: parallel segments never intersect. lineSegmentsIntersect
\* returns false for every pair of segments with a zero determinant, and for
\* every other pair it returns true exactly when the intersection parameters
\* of both segments lie in [0,1], the ends included.
C37_ParallelNeverIntersect ==
  query.fn = "lineSegmentsIntersect" =>
    /\ Determinant(SegA, SegB, SegC, SegD) = 0 => ~query.outcome.value
    /\ Determinant(SegA, SegB, SegC, SegD) # 0
         => (query.outcome.value <=> MeetWithin(SegA, SegB, SegC, SegD))

\* C37 amended: nearly parallel segments never intersect. lineSegmentsIntersect
\* returns false for every pair of segments whose determinant is smaller than
\* 0.0001 in magnitude, the parallel and the collinear ones among them, and
\* for every other pair it returns true exactly when the intersection
\* parameters of both segments lie in [0,1], the ends included.
C37_NearlyParallelNeverIntersect ==
  query.fn = "lineSegmentsIntersect" =>
    /\ Abs(Determinant(SegA, SegB, SegC, SegD)) < ParallelTolerance
         => ~query.outcome.value
    /\ Abs(Determinant(SegA, SegB, SegC, SegD)) >= ParallelTolerance
         => (query.outcome.value <=> MeetWithin(SegA, SegB, SegC, SegD))

\* the move from (0,0) to (2,0) pixels and the wall from (2,0) to (2,2), which
\* touches it at its end: the call has answered that they intersect
C37_Witness ==
  /\ query.fn = "lineSegmentsIntersect"
  /\ query.args = <<0, 0, 2000, 0, 2000, 0, 2000, 2000>>
  /\ query.outcome = Value(TRUE)


(***************************************************************************)
(* SpecReport: the distance of the preview and the distance of the chat    *)
(* message of one movement                                                 *)
(***************************************************************************)
\* canvas.grid.measurePath([origin, destination]).distance on a square grid
\* whose cells are gridDistance units wide: the cells of the direct line,
\* a diagonal step counting as one cell (EQUIDISTANT) or as two (RECTILINEAR)
measurePath(diagonals, gridDistance, origin, destination) ==
  LET a == getOffset(origin)
      b == getOffset(destination)
      di == Abs(a.i - b.i)
      dj == Abs(a.j - b.j)
      longer == IF di > dj THEN di ELSE dj
  IN  IF diagonals = "EQUIDISTANT" THEN longer * gridDistance
      ELSE (di + dj) * gridDistance

\* utils.calculateDistance on a grid: the measure of the direct line
calculateDistance(diagonals, gridDistance, origin, destination) ==
  measurePath(diagonals, gridDistance, origin, destination)

\* the distance showPreview computes: the sum over the way points of the path
RECURSIVE pathDistance(_, _, _, _)
pathDistance(diagonals, gridDistance, prevPos, gridPath) ==
  IF gridPath = <<>> THEN 0
  ELSE calculateDistance(diagonals, gridDistance, prevPos, Head(gridPath))
         + pathDistance(diagonals, gridDistance, Head(gridPath), Tail(gridPath))

\* the movement cost part of the chat message of confirmMovement
chatCost(distance, availableMovement) ==
  IF availableMovement = NoMovement THEN [kind |-> "none", amount |-> 0]
  ELSE IF distance <= availableMovement[1]
       THEN [kind |-> "remaining", amount |-> availableMovement[1] - distance]
  ELSE IF distance <= availableMovement[1] * 2
       THEN [kind |-> "extra", amount |-> distance - availableMovement[1]]
  ELSE [kind |-> "exceeded", amount |-> distance - availableMovement[1]]

\* a token of the given available movement standing on cell startOffset of
\* scene sc is shown the preview to cell endOffset and the movement is
\* confirmed and succeeds: the distance and the colour of the preview, and the
\* distance and the cost of the chat message
ReportMovement(sc, diagonals, gridDistance, startOffset, endOffset, availableMovement) ==
  LET origin == cellCenterOn(sc, startOffset)
      snappedDest == cellCenterOn(sc, endOffset)
      pathfindingResult == findPathAStarOn(sc, startOffset, endOffset)
      gridPath == pathCenters(sc, pathfindingResult)
      shown == pathDistance(diagonals, gridDistance, origin, gridPath)
      distance == calculateDistance(diagonals, gridDistance, origin, snappedDest)
  IN  /\ isGridOffsetWithinBoundsOn(sc, endOffset, FALSE)
      /\ Len(pathfindingResult) > 1
      /\ Ask("confirmMovement",
             [scene |-> sc, diagonals |-> diagonals, distance |-> gridDistance],
             <<startOffset, endOffset, availableMovement, Len(gridPath)>>,
             Value([preview |-> [distance |-> shown,
                                 color |-> movementColor(shown, availableMovement)],
                    chat |-> [distance |-> distance,
                              cost |-> chatCost(distance, availableMovement)]]))

\* the scenes of the report: no wall or one wall of WallChoices
ReportScenes == {sc \in SquareScenes : Len(sc.walls) <= 1}

GridDistances == {1, 5}

NextReport ==
  /\ query = NoQuery
  /\ \E sc \in ReportScenes, diagonals \in {"EQUIDISTANT", "RECTILINEAR"},
        gridDistance \in GridDistances, s \in SquareStarts, e \in SquareEnds,
        m \in Movements :
       ReportMovement(sc, diagonals, gridDistance, s, e, m)

SpecReport == Init /\ [][NextReport]_vars

\* C38: reported distance matches the preview. After a successful movement
\* the distance of the chat message and the remaining, extra or exceeded
\* movement derived from it equal the distance of the path shown in the
\* preview and what is derived from that, for every path, detours included.
C38_ReportedDistanceMatchesPreview ==
  query.fn = "confirmMovement" =>
    LET preview == query.outcome.value.preview
        chat == query.outcome.value.chat
    IN  /\ chat.distance = preview.distance
        /\ chat.cost = chatCost(preview.distance, query.args[3])


(***************************************************************************)
(* SpecControls: the overlay panels of the GM and of a player, and the     *)
(* world settings controlsLocked, broadcastMode and blackoutMode           *)
(***************************************************************************)
\* what a handler of a panel yields: the fields of the panel, the calls of
\* game.settings.set in their order, and what was done to the canvas view
Handled(oc, sets, performed) == [oc |-> oc, sets |-> sets, performed |-> performed]

Set(key, value) == [key |-> key, value |-> value]

\* OverlayControls.toggleLock
toggleLock(oc, canSeeLockButton) ==
  IF ~canSeeLockButton THEN Handled(oc, <<>>, "none")
  ELSE Handled(oc, <<Set("controlsLocked", ~oc.isLocked)>>, "none")

\* OverlayControls.toggleBroadcast
toggleBroadcast(oc, userIsGM) ==
  IF ~userIsGM THEN Handled(oc, <<>>, "none")
  ELSE LET newState == ~oc.isBroadcasting
       IN  Handled(oc,
                   <<Set("broadcastMode", newState)>>
                     \o (IF newState /\ ~oc.isLocked
                         THEN <<Set("controlsLocked", TRUE)>> ELSE <<>>),
                   "none")

\* variant of toggleBlackout: disabling blackout always unlocks
toggleBlackoutUnlocking(oc, userIsGM) ==
  IF ~userIsGM THEN Handled(oc, <<>>, "none")
  ELSE LET newState == ~oc.isBlackout
       IN  IF newState
           THEN Handled([oc EXCEPT !.lockWasActiveBeforeBlackout = oc.isLocked],
                        <<Set("blackoutMode", TRUE)>>
                          \o (IF ~oc.isLocked
                              THEN <<Set("controlsLocked", TRUE)>> ELSE <<>>),
                        "none")
           ELSE Handled(oc,
                        <<Set("blackoutMode", FALSE), Set("controlsLocked", FALSE)>>,
                        "none")

\* OverlayControls.toggleBlackout
toggleBlackout(oc, userIsGM) ==
  IF ~userIsGM THEN Handled(oc, <<>>, "none")
  ELSE LET newState == ~oc.isBlackout
       IN  IF newState
           THEN Handled([oc EXCEPT !.lockWasActiveBeforeBlackout = oc.isLocked],
                        <<Set("blackoutMode", TRUE)>>
                          \o (IF ~oc.isLocked
                              THEN <<Set("controlsLocked", TRUE)>> ELSE <<>>),
                        "none")
           ELSE Handled(oc,
                        <<Set("blackoutMode", FALSE)>>
                          \o (IF ~oc.lockWasActiveBeforeBlackout
                              THEN <<Set("controlsLocked", FALSE)>> ELSE <<>>),
                        "none")

\* OverlayControls.stopPanning
stopPanning(oc) == [oc EXCEPT !.panInterval = NoPan]

\* OverlayControls.startPanning: the running interval is cleared, one pan is
\* performed at once and the interval is set
startPanning(oc, direction) ==
  Handled([stopPanning(oc) EXCEPT !.panInterval = direction], <<>>, "pan")

\* OverlayControls.handlePan
handlePan(oc, direction, isStart) ==
  IF isStart THEN startPanning(oc, direction)
  ELSE Handled(stopPanning(oc), <<>>, "none")

\* OverlayControls.handleAction on a panel whose user is or is not a GM and
\* may or may not see the lock button
handleAction(oc, userIsGM, canSeeLockButton, action, isStart) ==
  IF action = "toggle-lock"
  THEN (IF isStart THEN toggleLock(oc, canSeeLockButton) ELSE Handled(oc, <<>>, "none"))
  ELSE IF action = "toggle-broadcast"
  THEN (IF isStart THEN toggleBroadcast(oc, userIsGM) ELSE Handled(oc, <<>>, "none"))
  ELSE IF action = "toggle-blackout"
  THEN (IF isStart THEN toggleBlackout(oc, userIsGM) ELSE Handled(oc, <<>>, "none"))
  ELSE IF oc.isLocked /\ ~userIsGM THEN Handled(oc, <<>>, "none")
  ELSE IF action = "zoom-in"
  THEN Handled(oc, <<>>, IF isStart THEN "zoom" ELSE "none")
  ELSE IF action = "pan-up" THEN handlePan(oc, "up", isStart)
  ELSE Handled(oc, <<>>, "none")

\* the onChange of the three settings: updateLockState, updateBroadcastState
\* and updateBlackoutState
updateState(oc, set) ==
  IF set.key = "controlsLocked" THEN [oc EXCEPT !.isLocked = set.value]
  ELSE IF set.key = "broadcastMode" THEN [oc EXCEPT !.isBroadcasting = set.value]
  ELSE [oc EXCEPT !.isBlackout = set.value]

\* the world settings once a change has been stored
stored(settings, set) == [settings EXCEPT ![set.key] = set.value]

\* the world settings once all the changes under way have been stored
RECURSIVE storedAll(_, _)
storedAll(settings, sets) ==
  IF sets = <<>> THEN settings
  ELSE storedAll(stored(settings, Head(sets)), Tail(sets))

\* the changes of settings under way at one time
MaxPending == 3

\* the buttons pressed in the model: the GM's toggles, and every kind of
\* button on the player's panel
ControlActions(c) ==
  IF isGM(c) THEN {"toggle-lock", "toggle-broadcast", "toggle-blackout"}
  ELSE {"toggle-lock", "toggle-blackout", "zoom-in", "pan-up"}

\* pointerdown (isStart) or pointerup / pointerleave on a button of the panel
\* of client c; lockButtonRoles is at its default, the GAMEMASTER role, so
\* that only the GM sees the lock button
PointerEvent(c, action, isStart) ==
  LET h == handleAction(controls.panel[c], isGM(c), isGM(c), action, isStart)
      enabling == action = "toggle-blackout" /\ isStart /\ isGM(c)
                    /\ ~controls.panel[c].isBlackout
  IN  /\ Len(controls.pending) + Len(h.sets) <= MaxPending
      /\ controls' = [controls EXCEPT
                        !.panel[c] = h.oc,
                        !.pending = @ \o h.sets,
                        !.found = IF enabling THEN controls.settings.controlsLocked
                                  ELSE @,
                        !.last = [client |-> c, action |-> action, isStart |-> isStart,
                                  performed |-> h.performed]]
      /\ UNCHANGED <<session, ruler, doc, mirror, outbox, inbox, loops, now, ticks, notice,
                     online, events, search, overlay, query>>

\* the interval of startPanning fires on client c: performPan
PanTick(c) ==
  /\ controls.panel[c].panInterval # NoPan
  /\ controls' = [controls EXCEPT
                    !.last = [client |-> c, action |-> "interval", isStart |-> FALSE,
                              performed |-> "pan"]]
  /\ UNCHANGED <<session, ruler, doc, mirror, outbox, inbox, loops, now, ticks, notice,
                 online, events, search, overlay, query>>

\* the oldest change of a world setting is stored and its onChange runs on
\* every client
SettingChanged ==
  /\ controls.pending # <<>>
  /\ LET set == Head(controls.pending)
     IN  controls' = [controls EXCEPT
                        !.settings = stored(@, set),
                        !.pending = Tail(@),
                        !.panel = [c \in DOMAIN @ |-> updateState(@[c], set)],
                        !.last = [client |-> NoUser, action |-> set.key,
                                  isStart |-> set.value, performed |-> "none"]]
  /\ UNCHANGED <<session, ruler, doc, mirror, outbox, inbox, loops, now, ticks, notice,
                 online, events, search, overlay, query>>

NextControls ==
  \/ \E c \in {"gm", "u1"} :
       \E action \in ControlActions(c), isStart \in BOOLEAN : PointerEvent(c, action, isStart)
  \/ PanTick("u1")
  \/ SettingChanged

SpecControls == Init /\ [][NextControls]_vars

\* C39: locked overlay controls do not pan or zoom for players. On the
\* player's client, while isLocked is true nothing pans or zooms the view
\* through the overlay, and after the release of a button while locked no
\* continuous pan is running.
C39_LockedControlsDoNotPan ==
  [][ /\ (controls'.last.client = "u1" /\ controls.panel["u1"].isLocked
            /\ controls'.last # controls.last)
        => controls'.last.performed = "none"
      /\ (controls'.last.client = "u1" /\ controls.panel["u1"].isLocked
            /\ controls'.last.action = "pan-up" /\ ~controls'.last.isStart)
        => controls'.panel["u1"].panInterval = NoPan ]_vars


\* the control lock once the changes under way have been stored
LockOutcome == storedAll(controls.settings, controls.pending).controlsLocked

\* every change of a setting has been stored and has reached the panels
Settled == controls.pending = <<>>

\* this step is the press of a toggle button on the GM's panel
GmToggles(action) ==
  /\ controls'.last = [client |-> "gm", action |-> action, isStart |-> TRUE,
                       performed |-> "none"]
  /\ controls'.pending # controls.pending

EnablesBlackout == GmToggles("toggle-blackout") /\ ~controls.panel["gm"].isBlackout

DisablesBlackout == GmToggles("toggle-blackout") /\ controls.panel["gm"].isBlackout

EnablesBroadcast == GmToggles("toggle-broadcast") /\ ~controls.panel["gm"].isBroadcasting

DisablesBroadcast == GmToggles("toggle-broadcast") /\ controls.panel["gm"].isBroadcasting

====
